---- MODULE Spec2Model ----
(***************************************************************************)
(* The trailing-stop decision engine VolumeATRTrailing                     *)
(* (trading_algos/trailing/volume_atr.py) driven by a poller against a     *)
(* broker.                                                                 *)
(*                                                                         *)
(* Units.  All arithmetic is exact integer arithmetic:                     *)
(*   prices   in points (info.point is 1; 1.10000 is 110000),              *)
(*   volume   in hundredths of a lot (0.20 lots is 20),                    *)
(*   money    in half cents (1 dollar is 200, the tolerance 0.01 is 2),    *)
(*   ratios   in hundredths (volume ratio 1.0 is 100),                     *)
(*   multipliers in thousandths (2.0 is 2000),                             *)
(*   time     in seconds.                                                  *)
(* A non-integral price is a pair <<n, d>> (n / d points, d > 0) until     *)
(* round(x, info.digits) turns it into a whole number of points.           *)
(***************************************************************************)
EXTENDS Integers, Sequences, FiniteSets, TLC

\* ---------------------------------------------------------------- constants
\* The position of the test fixture: ticket, entry 1.10000, 0.20 lots; the
\* symbol metadata Broker.get_symbol_info falls back to (point 0.00001,
\* contract size 100000: one point of one lot is worth $1 = 200 half cents);
\* config.py in the units above.
TICKET == 999999
PRICE_OPEN == 110000
VOLUME == 20
POINT == 1
MIN_STOP_POINTS == 30
LOT_SCALE == 100
TRADE_CONTRACT_SIZE == 200
COMMISSION_PER_LOT == 700
\* volume_atr.py imports PROFIT_TO_ACTIVATE_TRAILING from config.py, which
\* does not define it; the value is the $10 of the specification.
PROFIT_TO_ACTIVATE_TRAILING == 2000
TOLERANCE == 2
BASE_MULTIPLIER == 2000
MIN_MULTIPLIER == 1000
MAX_MULTIPLIER == 4000
VOLUME_SENSITIVITY == 2
RATIO_FLOOR == 10
FALLBACK_ATR == 150
VELOCITY_LIMIT == 6
VELOCITY_MIN_SECONDS == 6
VELOCITY_SCALE == 60
SECONDS_PER_MINUTE == 60
MULT_SCALE == 1000
RATIO_SCALE == 100
MONEY_SCALE == 200

\* ------------------------------------------------------------------- bounds
\* The favourable distance of the market price from the entry price moves on
\* a grid of 90 points, from the entry price up to MaxPriceSteps steps in the
\* position's favour.
MaxPriceSteps == 3

Tickets == {TICKET}

\* Favourable offsets (points) of the current price from the entry price.
PriceOffsets == {90 * k : k \in 0..MaxPriceSteps}

\* Offsets (points, on the favourable side of the entry) of a stop that
\* somebody other than the engine has put on the position.
ForeignStopOffsets == {-100, 100}

\* Broker-reported unrealized profit: $0.05, $17.25, $60.
Profits == {10, 3450, 12000}

\* Accumulated swap: -$1.15, -$0.10, +$12.10.
Swaps == {-230, -20, 2420}

\* trade_stops_level of the symbol: below and above the 30-point floor.
StopsLevels == {10, 40}

\* Volume ratios returned by _get_volume_ratio (hundredths).
VolumeRatios == {0, 100, 900}

\* True-range averages returned by _get_atr (points).
AtrValues == {0, FALLBACK_ATR}

\* Seconds elapsed since the previous calculate_next_sl of the ticket.
Elapsed == {1, 60}

\* The worked scenarios of the ratchet: the position is well in profit
\* (price 1.10400 or 1.10800 for a long), its stop is unset or at a
\* favourable offset, the volume ratio runs from far below the lower clip
\* (0.05, 0.1) through 0.5, 1.0, 2.0 to far above the upper clip (5.0, 9.0)
\* and the true-range average is 0.00120 or the fallback.
ScenarioPriceOffsets == {400, 800}
ScenarioStopOffsets == {200, 300}
ScenarioRatios == {5, 10, 50, 100, 200, 500, 900}
ScenarioAtrValues == {120, FALLBACK_ATR}

VARIABLES
    first_sl_set,            \* tickets where the engine set the first SL
    cleaned_preexisting_sl,  \* tickets where the engine removed a foreign SL
    last_profit,             \* ticket -> profit seen by the last calculate_next_sl
    last_monitor_log,        \* tickets that have a monitor-log time
    info,                    \* SymbolInfo of the traded symbol
    positions,               \* broker side: ticket -> open position
    pos,                     \* the snapshot last fetched; after a trail(), the
                             \* one it was invoked with
    calls,                   \* Broker.modify_sl calls of the trail() just made
    branch,                  \* the branch that trail() took; "none" when the
                             \* last step was not a trail()
    calc,                    \* vol_ratio, mult and atr of the calculate_next_sl
                             \* that the trail() just made ran, or the
                             \* estimates that the legacy trail_position
                             \* just made worked with; NoCalc otherwise
    error,                   \* the exception the trail() just made raised,
                             \* "none" when it returned
    engine_sl,               \* tickets whose stop at the broker is one that an
                             \* engine instance put there
    active_tickets,          \* the runner's set of tickets it is trailing
    args,                    \* the runner's command line
    auto_positions,          \* the runner's ticket -> auto-tracking record
    chained_positions,       \* the runner's tickets of chained adds
    run,                     \* the run of main(), a record:
                             \*   pc           where main() is
                             \*   new_tickets  what is left of
                             \*                `for new_ticket in new_tickets`
                             \*   poll_tickets what is left of
                             \*                `for ticket in list(active_tickets)`
                             \*   ticket       the ticket the loop body is on
                             \*   trailed      ticket -> number of engine.trail
                             \*                calls of the poll cycle under way
                             \*   requests     the modify requests of the step
                             \*                just made: ticket, and the
                             \*                take-profit the position had
                             \*   next_ticket  the ticket the broker gives the
                             \*                next position that is opened
    rates,                   \* the bar history of the symbol at the terminal
    _active_tickets,         \* the legacy script's set of tickets whose
                             \* trailing it has announced
    provider                 \* the robust_positions_get call just made: its
                             \* calls of the terminal and what it returned

vars == <<first_sl_set, cleaned_preexisting_sl, last_profit, last_monitor_log,
          info, positions, pos, calls, branch, calc, error, engine_sl,
          active_tickets, args, auto_positions, chained_positions, run, rates,
          _active_tickets, provider>>

\* The runner's own variables, active_tickets apart.
runner == <<args, auto_positions, chained_positions, run>>

engine == <<first_sl_set, cleaned_preexisting_sl, last_profit, last_monitor_log>>

\* What belongs neither to the packaged engine nor to the run of main().
aside == <<_active_tickets, provider>>

\* No call of robust_positions_get has been made.
NoFetch == [calls |-> <<>>, returned |-> {}]

\* ------------------------------------------------------------ pure helpers
Max(a, b) == IF a >= b THEN a ELSE b
Min(a, b) == IF a <= b THEN a ELSE b

\* Rationals <<n, d>> with d > 0.
QLess(x, y) == x[1] * y[2] < y[1] * x[2]
QMax(x, y) == IF QLess(x, y) THEN y ELSE x
QMin(x, y) == IF QLess(y, x) THEN y ELSE x
QInt(i) == <<i, 1>>

RECURSIVE Gcd(_, _)
Gcd(a, b) == IF b = 0 THEN a ELSE Gcd(b, a % b)

\* The same rational in lowest terms (keeps the products small).
QNorm(x) ==
    LET a == IF x[1] < 0 THEN -x[1] ELSE x[1]
        g == Gcd(a, x[2])
    IN  <<x[1] \div g, x[2] \div g>>

QMul(x, y) == QNorm(<<x[1] * y[1], x[2] * y[2]>>)

\* round(x, info.digits): the nearest whole number of points.  On an exact
\* tie Python rounds the binary float, which is a hair above or below the
\* tie; the prices, swaps and profits above are chosen so that no stop the
\* engine computes is an exact tie, and the tie rule here (to even) is never
\* what decides a result.
Round(x) ==
    LET q == x[1] \div x[2]
        r == x[1] % x[2]
    IN  IF 2 * r < x[2] THEN q
        ELSE IF 2 * r > x[2] THEN q + 1
        ELSE IF q % 2 = 0 THEN q ELSE q + 1

\* Price at a favourable offset from the entry price.
Favourable(is_buy, price_open, off) ==
    IF is_buy THEN price_open + off ELSE price_open - off

RECURSIVE IPow(_, _)
IPow(x, k) == IF k = 0 THEN 1 ELSE x * IPow(x, k - 1)

\* The largest x in lo..hi with x ^ k <= n (hi is known to be too large or
\* exact, lo known to be small enough).
RECURSIVE RootSearch(_, _, _, _)
RootSearch(n, k, lo, hi) ==
    IF lo >= hi THEN lo
    ELSE LET mid == (lo + hi + 1) \div 2
         IN  IF IPow(mid, k) <= n THEN RootSearch(n, k, mid, hi)
             ELSE RootSearch(n, k, lo, mid - 1)

\* ----------------------------------------------------------------- broker
\* Broker.get_symbol_info: the metadata of the traded symbol.
SymbolInfos == [trade_stops_level : StopsLevels]

\* Position snapshots are the broker's records, Position.from_mt5 copies
\* them field by field.
Snapshot(t) == positions[t]

\* Broker.modify_sl: the request carries round(sl, digits); the terminal
\* applies it when it answers TRADE_RETCODE_DONE (ok) and leaves the position
\* alone otherwise.  The return value is ok.
ModifySl(t, sl, ok) ==
    IF ok THEN [positions EXCEPT ![t].sl = Round(QInt(sl))] ELSE positions

\* Call with the request sent a second time.
Call_Twice(sl, ok) == <<[sl |-> sl, ok |-> ok], [sl |-> sl, ok |-> ok]>>

\* What one Broker.modify_sl(ticket, symbol, sl, ...) adds to the calls of
\* the invocation: the one call, with the stop it carries and its result.
Call(sl, ok) == <<[sl |-> sl, ok |-> ok]>>

\* The tickets whose stop at the broker is an engine's, after that request:
\* a request that is applied puts the engine's stop there, or takes the stop
\* off when it carries 0.0.
EngineSl(t, sl, ok) ==
    IF ~ok THEN engine_sl
    ELSE IF Round(QInt(sl)) = 0 THEN engine_sl \ {t}
    ELSE engine_sl \cup {t}

\* ----------------------------------------------------- VolumeATRTrailing
\* MinDist without the 30-point floor.
MinDist_NoFloor(inf) == inf.trade_stops_level * POINT

MinDist(inf) == Max(inf.trade_stops_level * POINT, MIN_STOP_POINTS * POINT)

Contract(p) == (p.volume * TRADE_CONTRACT_SIZE) \div LOT_SCALE

Commission(p) == (COMMISSION_PER_LOT * p.volume) \div LOT_SCALE

RequiredProfit(p, inf) ==
    PROFIT_TO_ACTIVATE_TRAILING + MinDist(inf) * Contract(p) + Commission(p) - p.swap

\* ShouldSetInitialSl against the flat target, without the distance buffer,
\* the commission and the swap.
ShouldSetInitialSl_FlatTarget(fs, p, inf) ==
    p.ticket \notin fs /\ p.profit >= PROFIT_TO_ACTIVATE_TRAILING

\* ShouldSetInitialSl asking for twice the required profit.
ShouldSetInitialSl_DoubleTarget(fs, p, inf) ==
    /\ p.ticket \notin fs
    /\ p.profit >= 2 * RequiredProfit(p, inf)

ShouldSetInitialSl(fs, p, inf) ==
    IF p.ticket \in fs THEN FALSE
    ELSE IF p.profit < RequiredProfit(p, inf) THEN FALSE
    ELSE TRUE

\* CalculateInitialSl with the commission left out of the locked amount.
CalculateInitialSl_NoCommission(p, inf) ==
    LET contract == Contract(p)
        need == PROFIT_TO_ACTIVATE_TRAILING - p.swap
    IN  IF p.is_buy
        THEN Round(QMin(<<p.price_open * contract + need, contract>>,
                        QInt(p.price_current - MinDist(inf))))
        ELSE Round(QMax(<<p.price_open * contract - need, contract>>,
                        QInt(p.price_current + MinDist(inf))))

CalculateInitialSl(p, inf) ==
    LET target == PROFIT_TO_ACTIVATE_TRAILING
        commission == Commission(p)
        contract == Contract(p)
        need == target + commission - p.swap
    IN  IF p.is_buy
        THEN Round(QMin(<<p.price_open * contract + need, contract>>,
                        QInt(p.price_current - MinDist(inf))))
        ELSE Round(QMax(<<p.price_open * contract - need, contract>>,
                        QInt(p.price_current + MinDist(inf))))

\* ProfitIfSlHit with the swap taken off instead of added.
ProfitIfSlHit_SwapSubtracted(p, sl_price) ==
    IF sl_price = 0 THEN 0
    ELSE LET diff == IF p.is_buy THEN sl_price - p.price_open
                     ELSE p.price_open - sl_price
         IN  diff * Contract(p) - p.swap - Commission(p)

ProfitIfSlHit(p, sl_price) ==
    IF sl_price = 0 THEN 0
    ELSE LET diff == IF p.is_buy THEN sl_price - p.price_open
                     ELSE p.price_open - sl_price
             gross == diff * Contract(p)
         IN  gross + p.swap - Commission(p)

\* Multiplier without np.clip.
Multiplier_Unclipped(ratio) ==
    LET vol_ratio == Max(ratio, RATIO_FLOOR)
        scaled == vol_ratio * (IPow(MULT_SCALE, VOLUME_SENSITIVITY) \div RATIO_SCALE)
        root == RootSearch(scaled, VOLUME_SENSITIVITY, 0, MULT_SCALE * RATIO_FLOOR)
    IN  (BASE_MULTIPLIER * root) \div MULT_SCALE

\* np.clip(BASE_MULTIPLIER * vol_ratio ** (1 / VOLUME_SENSITIVITY), MIN, MAX)
\* in thousandths, with vol_ratio = max(ratio, 0.1).
Multiplier(ratio) ==
    LET vol_ratio == Max(ratio, RATIO_FLOOR)
        \* (vol_ratio / RATIO_SCALE) ^ (1 / VOLUME_SENSITIVITY), in thousandths
        scaled == vol_ratio * (IPow(MULT_SCALE, VOLUME_SENSITIVITY) \div RATIO_SCALE)
        root == RootSearch(scaled, VOLUME_SENSITIVITY, 0, MULT_SCALE * RATIO_FLOOR)
        raw == (BASE_MULTIPLIER * root) \div MULT_SCALE
    IN  Min(Max(raw, MIN_MULTIPLIER), MAX_MULTIPLIER)

\* Multiplier over the volume ratios the estimator returns here, evaluated
\* once.
MultiplierTable ==
    [ratio \in VolumeRatios \cup ScenarioRatios |-> Multiplier(ratio)]

\* The velocity boost: the factor (a rational) that multiplies mult.
\* velocity = (profit - prev profit) / max(minutes elapsed, 0.1) dollars a
\* minute; above 6.0 the factor is max(0.7, 1 - velocity / 60).
VelocityFactor(lp, p, dt) ==
    LET known == p.ticket \in DOMAIN lp
        dprofit == IF known THEN p.profit - lp[p.ticket] ELSE 0
        secs == Max(IF known THEN dt ELSE 0, VELOCITY_MIN_SECONDS)
        \* velocity = (dprofit / MONEY_SCALE) * SECONDS_PER_MINUTE / secs
        fast == dprofit * SECONDS_PER_MINUTE > VELOCITY_LIMIT * MONEY_SCALE * secs
        den == MONEY_SCALE * secs * VELOCITY_SCALE
    IN  IF fast
        THEN QNorm(QMax(<<7, 10>>, <<den - dprofit * SECONDS_PER_MINUTE, den>>))
        ELSE QInt(1)

\* mult after the velocity boost, a rational in units of 1.
AppliedMultiplier(lp, p, ratio, dt) ==
    QMul(QNorm(<<MultiplierTable[ratio], MULT_SCALE>>), VelocityFactor(lp, p, dt))

\* 0.7 * ATR(M5) + 0.3 * ATR(M1)
BlendedAtr(atr5, atr1) == QNorm(<<7 * atr5 + 3 * atr1, 10>>)

CalculateNextSl(lp, p, inf, ratio, atr5, atr1, dt) ==
    LET dist == QMul(AppliedMultiplier(lp, p, ratio, dt), BlendedAtr(atr5, atr1))
        n == dist[1]
        d == dist[2]
        min_dist == MinDist(inf)
    IN  IF p.is_buy
        THEN LET candidate == <<p.price_current * d - n, d>>
                 new_sl == QMax(candidate, QInt(p.sl))
             IN  Round(QMin(new_sl, QInt(p.price_current - min_dist)))
        ELSE LET candidate == <<p.price_current * d + n, d>>
                 new_sl == IF p.sl = 0 THEN candidate
                           ELSE QMin(candidate, QInt(p.sl))
             IN  Round(QMax(new_sl, QInt(p.price_current + min_dist)))

\* The locals of calculate_next_sl: vol_ratio (line 87), mult as np.clip
\* returns it (lines 89-90, before the velocity boost) and atr (lines
\* 100-101).
Calc(ratio, atr5, atr1) ==
    [vol_ratio |-> Max(ratio, RATIO_FLOOR),
     mult |-> MultiplierTable[ratio],
     atr |-> BlendedAtr(atr5, atr1)]

\* calculate_next_sl did not run.
NoCalc == [vol_ratio |-> 0, mult |-> 0, atr |-> <<0, 1>>]

\* ShouldMove on any difference between the new stop and the reported one.
ShouldMove_AnyChange(p, new_sl) == new_sl # p.sl

ShouldMove(p, new_sl) ==
    \/ p.is_buy /\ new_sl > p.sl + POINT
    \/ ~p.is_buy /\ new_sl < p.sl - POINT

\* CleanupDue only while the profit is below the activation threshold.
CleanupDue_BelowThreshold(fs, cl, p) ==
    /\ p.sl # 0 /\ p.ticket \notin cl /\ p.ticket \notin fs
    /\ p.profit < PROFIT_TO_ACTIVATE_TRAILING

\* CleanupDue without the ownership test.
CleanupDue_IgnoresOwnership(fs, cl, p) ==
    p.sl # 0 /\ p.ticket \notin cl

\* CleanupDue without the memory of the tickets already cleaned.
CleanupDue_ForgetsCleaned(fs, cl, p) ==
    /\ p.sl # 0
    /\ p.ticket \notin fs

\* Step 1 of trail: a nonzero stop on a ticket the engine has neither cleaned
\* nor owns.
CleanupDue(fs, cl, p) ==
    p.sl # 0 /\ p.ticket \notin cl /\ p.ticket \notin fs

\* LockSufficient with the check left out.
LockSufficient_Always(locked) == TRUE

\* locked >= PROFIT_TO_ACTIVATE_TRAILING - 0.01
LockSufficient(locked) == locked >= PROFIT_TO_ACTIVATE_TRAILING - TOLERANCE

\* EntrySideOk with the two directions swapped.
EntrySideOk_Swapped(p, sl) ==
    (p.is_buy /\ sl < p.price_open) \/ (~p.is_buy /\ sl > p.price_open)

\* EntrySideOk with the check left out.
EntrySideOk_Always(p, sl) == TRUE

\* The stop is on the profit side of the entry price.
EntrySideOk(p, sl) ==
    (p.is_buy /\ sl > p.price_open) \/ (~p.is_buy /\ sl < p.price_open)

\* The state of the engine after the foreign-stop cleanup branch.
\* The result of modify_sl is not looked at.
TrailCleanup(t, p, ok) ==
    /\ positions' = ModifySl(t, 0, ok)
    /\ engine_sl' = EngineSl(t, 0, ok)
    /\ calls' = Call(0, ok)
    /\ cleaned_preexisting_sl' = cleaned_preexisting_sl \cup {t}
    /\ branch' = "cleanup"
    /\ calc' = NoCalc
    /\ UNCHANGED <<first_sl_set, last_profit, last_monitor_log>>

\* The initial-placement branch: should_set_initial_sl(pos) held.
TrailInitial(t, p, ok) ==
    LET sl == CalculateInitialSl(p, info)
        locked == ProfitIfSlHit(p, sl)
    IN  /\ calc' = NoCalc
        /\ IF LockSufficient(locked)
           THEN IF EntrySideOk(p, sl)
                THEN /\ positions' = ModifySl(t, sl, ok)
                     /\ engine_sl' = EngineSl(t, sl, ok)
                     /\ calls' = Call(sl, ok)
                     /\ first_sl_set' = IF ok THEN first_sl_set \cup {t} ELSE first_sl_set
                     /\ branch' = "initial"
                     /\ UNCHANGED <<cleaned_preexisting_sl, last_profit, last_monitor_log>>
                ELSE /\ calls' = <<>>
                     /\ branch' = "skipped_negative_lock"
                     /\ UNCHANGED <<positions, engine_sl, engine>>
           ELSE /\ calls' = <<>>
                /\ branch' = "skipped_insufficient_buffer"
                /\ UNCHANGED <<positions, engine_sl, engine>>

\* The ratchet branch: the ticket is in first_sl_set.
TrailRatchet(t, p, ratio, atr5, atr1, dt) ==
    LET new_sl == CalculateNextSl(last_profit, p, info, ratio, atr5, atr1, dt)
    IN  /\ last_profit' = [k \in DOMAIN last_profit \cup {t} |->
                              IF k = t THEN p.profit ELSE last_profit[k]]
        /\ calc' = Calc(ratio, atr5, atr1)
        /\ IF ShouldMove(p, new_sl)
           THEN /\ \E ok \in BOOLEAN :
                     /\ positions' = ModifySl(t, new_sl, ok)
                     /\ engine_sl' = EngineSl(t, new_sl, ok)
                     /\ calls' = Call(new_sl, ok)
                /\ branch' = "trailed"
           ELSE /\ calls' = <<>>
                /\ branch' = "held"
                /\ UNCHANGED <<positions, engine_sl>>
        /\ UNCHANGED <<first_sl_set, cleaned_preexisting_sl, last_monitor_log>>

\* Below activation: the throttled POSITION_MONITOR log.
TrailMonitor(t, p) ==
    /\ last_monitor_log' = last_monitor_log \cup {t}
    /\ calls' = <<>>
    /\ branch' = "monitor"
    /\ calc' = NoCalc
    /\ UNCHANGED <<positions, engine_sl, first_sl_set, cleaned_preexisting_sl,
                   last_profit>>

\* VolumeATRTrailing.trail(pos) on the snapshot the poller has just fetched,
\* with the symbol metadata available.  Each branch draws the inputs it
\* consults: ok is the terminal's answer to a modify request; ratio (from
\* ratios) and atr (from atrs) are what the market-data estimators return;
\* dt is the time since the previous calculate_next_sl for the ticket.
\* The runner has the ticket in active_tickets once trail has returned.
TrailOn(t, ratios, atrs) ==
    LET p == Snapshot(t)
    IN  /\ pos' = p
        /\ error' = "none"
        /\ active_tickets' = active_tickets \cup {t}
        /\ UNCHANGED info
        /\ IF CleanupDue(first_sl_set, cleaned_preexisting_sl, p)
           THEN \E ok \in BOOLEAN : TrailCleanup(t, p, ok)
           ELSE IF ShouldSetInitialSl(first_sl_set, p, info)
           THEN \E ok \in BOOLEAN : TrailInitial(t, p, ok)
           ELSE IF t \in first_sl_set
           THEN \E ratio \in ratios, atr \in atrs, dt \in Elapsed :
                    TrailRatchet(t, p, ratio, atr, atr, dt)
           ELSE TrailMonitor(t, p)

Trail(t) == TrailOn(t, VolumeRatios, AtrValues)

\* ------------------------------------------------------------ environment
\* The market moves: the broker reports a new current price.
PriceMove(t, off) ==
    /\ positions' = [positions EXCEPT
           ![t].price_current = Favourable(positions[t].is_buy, positions[t].price_open, off)]
    /\ positions' # positions
    /\ pos' = positions'[t]
    /\ calls' = <<>>
    /\ branch' = "none"
    /\ calc' = NoCalc
    /\ UNCHANGED <<engine, info, engine_sl, error, active_tickets>>

\* The broker reports a new unrealized profit (it computes the figure itself,
\* in the account currency; the engine takes it as given).
ProfitChange(t, profit) ==
    /\ positions' = [positions EXCEPT ![t].profit = profit]
    /\ positions' # positions
    /\ pos' = positions'[t]
    /\ calls' = <<>>
    /\ branch' = "none"
    /\ calc' = NoCalc
    /\ UNCHANGED <<engine, info, engine_sl, error, active_tickets>>

\* Somebody other than the engine (the trader, another program) puts a stop
\* on the position, moves it or takes it off.
ForeignModify(t, sl) ==
    /\ positions[t].sl # sl
    /\ positions' = [positions EXCEPT ![t].sl = sl]
    /\ engine_sl' = engine_sl \ {t}
    /\ pos' = positions'[t]
    /\ calls' = <<>>
    /\ branch' = "none"
    /\ calc' = NoCalc
    /\ UNCHANGED <<engine, info, error, active_tickets>>

\* The stops somebody else can put on the position: none (0), or a price on
\* the protective side of the current price (the terminal takes no other).
ForeignStops(t) ==
    LET q == positions[t]
    IN  {0} \cup {Favourable(q.is_buy, q.price_open, off) :
                     off \in {o \in ForeignStopOffsets :
                                 o < (IF q.is_buy THEN q.price_current - q.price_open
                                      ELSE q.price_open - q.price_current)}}

\* No ticket: args.ticket is None, the loop body is on no ticket.
NoTicket == 0

\* The runner as the specifications of the engine see it: started with --all
\* and no other option, polling; they let trail be called in any order and
\* leave the runner's own variables and the bar window alone.
RunnerAtRest ==
    /\ args = [all |-> TRUE, ticket |-> NoTicket, ignore_tp_positions |-> FALSE]
    /\ auto_positions = <<>>
    /\ chained_positions = {}
    /\ run = [pc |-> "fetch", new_tickets |-> {}, poll_tickets |-> {},
              ticket |-> NoTicket, trailed |-> <<>>, requests |-> {},
              next_ticket |-> TICKET + 1]
    /\ rates = [none |-> FALSE, bars |-> <<>>]
    /\ _active_tickets = {}
    /\ provider = NoFetch

InitialPositions ==
    {[ticket |-> TICKET, is_buy |-> b, volume |-> VOLUME, price_open |-> PRICE_OPEN,
      price_current |-> PRICE_OPEN, sl |-> 0, profit |-> 10, swap |-> w] :
        b \in BOOLEAN, w \in Swaps}

Init ==
    /\ first_sl_set = {}
    /\ cleaned_preexisting_sl = {}
    /\ last_profit = <<>>
    /\ last_monitor_log = {}
    /\ info \in SymbolInfos
    /\ positions \in [Tickets -> InitialPositions]
    /\ pos = positions[TICKET]
    /\ calls = <<>>
    /\ branch = "none"
    /\ calc = NoCalc
    /\ error = "none"
    /\ engine_sl = {}
    /\ active_tickets = {}
    /\ RunnerAtRest

\* The tickets the broker reports as open.
OpenTickets == DOMAIN positions

\* The runner's own variables and the bar window stay as they are.
RunnerUnchanged == UNCHANGED <<runner, rates, aside>>

Next ==
    \/ /\ \E t \in OpenTickets : Trail(t)
       /\ RunnerUnchanged
    \/ /\ \E t \in OpenTickets, off \in PriceOffsets : PriceMove(t, off)
       /\ RunnerUnchanged
    \/ /\ \E t \in OpenTickets, profit \in Profits : ProfitChange(t, profit)
       /\ RunnerUnchanged
    \/ /\ \E t \in OpenTickets : \E sl \in ForeignStops(t) : ForeignModify(t, sl)
       /\ RunnerUnchanged

Spec == Init /\ [][Next]_vars

\* ------------------------------------------------- the ratchet on its own
\* The positions of the worked scenarios: in profit by $17.25 or $60, the
\* stop unset or at a favourable offset from the entry.
ScenarioSnapshots ==
    {[ticket |-> TICKET, is_buy |-> b, volume |-> VOLUME, price_open |-> PRICE_OPEN,
      price_current |-> Favourable(b, PRICE_OPEN, off),
      sl |-> IF so = 0 THEN 0 ELSE Favourable(b, PRICE_OPEN, so),
      profit |-> pr, swap |-> w] :
        b \in BOOLEAN, off \in ScenarioPriceOffsets,
        so \in {0} \cup ScenarioStopOffsets, pr \in Profits \ {10}, w \in Swaps}

\* The engine has placed the first stop of the position and the runner is
\* trailing it.
CalcInit ==
    /\ first_sl_set = Tickets
    /\ cleaned_preexisting_sl = {}
    /\ last_profit = <<>>
    /\ last_monitor_log = {}
    /\ info \in SymbolInfos
    /\ positions \in [Tickets -> ScenarioSnapshots]
    /\ pos = positions[TICKET]
    /\ calls = <<>>
    /\ branch = "none"
    /\ calc = NoCalc
    /\ error = "none"
    /\ engine_sl = {t \in Tickets : positions[t].sl # 0}
    /\ active_tickets = Tickets
    /\ RunnerAtRest

CalcNext ==
    /\ \E t \in OpenTickets : TrailOn(t, ScenarioRatios, ScenarioAtrValues)
    /\ RunnerUnchanged

CalcSpec == CalcInit /\ [][CalcNext]_vars

\* ----------------------------------------------- restarts, closes, faults
\* The process is started again: a new VolumeATRTrailing, a new runner.
Restart ==
    /\ first_sl_set' = {}
    /\ cleaned_preexisting_sl' = {}
    /\ last_profit' = <<>>
    /\ last_monitor_log' = {}
    /\ active_tickets' = {}
    /\ calls' = <<>>
    /\ branch' = "none"
    /\ calc' = NoCalc
    /\ error' = "none"
    /\ UNCHANGED <<info, positions, pos, engine_sl>>

\* The position is closed (its stop is hit, the trader closes it): the
\* broker does not report the ticket any more.
Close(t) ==
    /\ positions' = [k \in OpenTickets \ {t} |-> positions[k]]
    /\ engine_sl' = engine_sl \ {t}
    /\ calls' = <<>>
    /\ branch' = "none"
    /\ calc' = NoCalc
    /\ UNCHANGED <<engine, info, pos, error, active_tickets>>

\* The runner polls a ticket of active_tickets that the broker does not
\* report: it forgets the ticket; the engine is not told.
PollClosed(t) ==
    /\ t \notin OpenTickets
    /\ active_tickets' = active_tickets \ {t}
    /\ calls' = <<>>
    /\ branch' = "none"
    /\ calc' = NoCalc
    /\ UNCHANGED <<engine, info, positions, pos, error, engine_sl>>

\* trail(pos) when the terminal has no metadata for the symbol:
\* mt5.symbol_info returns None and Broker.get_symbol_info reads info.digits
\* of it, an AttributeError that nothing between there and the top of the
\* poll loop catches.
TrailNoSymbolInfo(t) ==
    /\ pos' = Snapshot(t)
    /\ calls' = <<>>
    /\ branch' = "no_symbol_info"
    /\ error' = "AttributeError"
    /\ calc' = NoCalc
    /\ UNCHANGED <<engine, info, positions, engine_sl, active_tickets>>

\* The poll loop runs while no exception has ended it.
LifecycleNext ==
    \/ error = "none" /\ Next
    \/ /\ error = "none"
       /\ \E t \in OpenTickets : TrailNoSymbolInfo(t)
       /\ RunnerUnchanged
    \/ /\ error = "none"
       /\ \E t \in active_tickets : PollClosed(t)
       /\ RunnerUnchanged
    \/ /\ \E t \in OpenTickets : Close(t)
       /\ RunnerUnchanged
    \/ /\ Restart
       /\ RunnerUnchanged

LifecycleSpec == Init /\ [][LifecycleNext]_vars

\* ------------------------------------------------------------- the runner
\* main() of trading_algos/trail_my_trade.py.  run.pc follows it: "startup"
\* (lines 104-138), then the poll loop: "fetch" (141-145), "scan" and
\* "scan_trail" (the body of the new-position loop, 146-175), "poll",
\* "poll_trail" and "poll_chain" (the body of the active-position loop,
\* 178-263).  A body is cut where it goes back to the broker, so that one step
\* has one trail call at most.  The ends: "no_match" and "start_failed"
\* (before the loop), "exited" (line 268), "interrupted" (line 274),
\* "crashed" (an exception the loop does not catch).
\*
\* The market stands still while the runner is observed; positions are
\* closed and take-profits are set between two poll cycles (a cycle takes
\* milliseconds, the sleep between two cycles a second).

\* Positions that auto chaining may open.
MaxChained == 1

\* The take-profit that asks for auto mode: 0.08 on a short, a price whose
\* integer part is 888888 on a long (is_auto_trigger); a price is
\* POINTS_PER_UNIT points per unit, so that the long's sentinel is beyond the
\* prices the model holds and no long of the model carries it.
SELL_AUTO_TP == 8000
BUY_AUTO_TP == 888888
POINTS_PER_UNIT == 100000

\* target of an auto-tracking record that has none (None).
NoTarget == 0

\* The tickets open when the runner starts, and every ticket there can be.
RunnerTickets == {TICKET, TICKET + 1}
LastTicket == TICKET + 1 + MaxChained

\* Offsets (points, favourable) of the current price and of a trader's
\* take-profit from the entry price.
RunnerPriceOffsets == {90}
TargetOffsets == {1000}

IsAutoTrigger(p) ==
    IF p.is_buy THEN p.tp \div POINTS_PER_UNIT = BUY_AUTO_TP
    ELSE p.tp = SELL_AUTO_TP

\* The take-profits a position can carry: none, a target of the trader, the
\* auto sentinel.
TakeProfits(is_buy) ==
    {0} \cup {Favourable(is_buy, PRICE_OPEN, off) : off \in TargetOffsets}
        \cup (IF is_buy THEN {} ELSE {SELL_AUTO_TP})

\* The positions open when the runner starts: in profit by $17.25 (above the
\* activation profit when the stops level is 10), no stop, no take-profit.
RunnerSnapshots(t) ==
    {[ticket |-> t, is_buy |-> b, volume |-> VOLUME, price_open |-> PRICE_OPEN,
      price_current |-> Favourable(b, PRICE_OPEN, off), sl |-> 0,
      profit |-> 3450, swap |-> -20, tp |-> 0] :
        b \in BOOLEAN, off \in RunnerPriceOffsets}

\* What the estimators return while the runner is observed: ratio 1.0, the
\* fallback true-range average.
RunnerRatios == {100}
RunnerAtrValues == {FALLBACK_ATR}

\* The command lines: --all, or --ticket T; each with or without
\* --ignore-tp-positions.
Args ==
    {a \in [all : BOOLEAN, ticket : RunnerTickets \cup {NoTicket},
            ignore_tp_positions : BOOLEAN] : a.all <=> a.ticket = NoTicket}

\* auto_positions and chained_positions are local names of main() that only
\* the --all branch binds (lines 134-135): without --all, reading either
\* raises UnboundLocalError.
LocalsBound == args.all

Put(f, k, v) == [x \in DOMAIN f \cup {k} |-> IF x = k THEN v ELSE f[x]]
Drop(f, k) == [x \in DOMAIN f \ {k} |-> f[x]]

\* trailed after one more engine.trail call for t.
Counted(t) == Put(run.trailed, t, IF t \in DOMAIN run.trailed THEN run.trailed[t] + 1 ELSE 1)

\* A step that is no trail call.
NoTrail ==
    /\ calls' = <<>>
    /\ branch' = "none"
    /\ calc' = NoCalc
    /\ UNCHANGED <<engine, info, engine_sl, rates, aside>>

\* An exception, raised while the loop body is on ticket t, leaves the loop;
\* `finally` shuts the terminal down.
Raise(e, t) ==
    /\ error' = e
    /\ run' = [run EXCEPT !.pc = "crashed", !.ticket = t, !.requests = {}]

RunnerInit ==
    /\ first_sl_set = {}
    /\ cleaned_preexisting_sl = {}
    /\ last_profit = <<>>
    /\ last_monitor_log = {}
    /\ info \in SymbolInfos
    /\ positions \in {f \in [RunnerTickets -> UNION {RunnerSnapshots(t) : t \in RunnerTickets}] :
                         \A t \in RunnerTickets : f[t].ticket = t}
    /\ pos = positions[TICKET]
    /\ calls = <<>>
    /\ branch = "none"
    /\ calc = NoCalc
    /\ error = "none"
    /\ engine_sl = {}
    /\ active_tickets = {}
    /\ args \in Args
    /\ auto_positions = <<>>
    /\ chained_positions = {}
    /\ run = [pc |-> "startup", new_tickets |-> {}, poll_tickets |-> {},
              ticket |-> NoTicket, trailed |-> <<>>, requests |-> {},
              next_ticket |-> TICKET + 2]
    /\ rates = [none |-> FALSE, bars |-> <<>>]
    /\ _active_tickets = {}
    /\ provider = NoFetch

\* Lines 126-138: --all starts with nothing tracked.
StartupAll ==
    /\ run.pc = "startup"
    /\ args.all
    /\ run' = [run EXCEPT !.pc = "fetch"]
    /\ NoTrail
    /\ UNCHANGED <<positions, pos, error, active_tickets, args, auto_positions,
                   chained_positions>>

\* Lines 106-125 with --ticket: the position is fetched, dropped when it
\* carries a take-profit and --ignore-tp-positions is set, trailed and
\* tracked otherwise.
StartupSingle ==
    /\ run.pc = "startup"
    /\ ~args.all
    /\ UNCHANGED <<args, auto_positions, chained_positions>>
    /\ IF args.ticket \notin OpenTickets
       THEN /\ run' = [run EXCEPT !.pc = "no_match"]
            /\ NoTrail
            /\ UNCHANGED <<positions, pos, error, active_tickets>>
       ELSE IF args.ignore_tp_positions /\ positions[args.ticket].tp # 0
       THEN /\ run' = [run EXCEPT !.pc = "fetch"]
            /\ NoTrail
            /\ UNCHANGED <<positions, pos, error, active_tickets>>
       ELSE /\ TrailOn(args.ticket, RunnerRatios, RunnerAtrValues)
            /\ UNCHANGED <<rates, aside>>
            /\ run' = [run EXCEPT !.pc = "fetch",
                                  !.requests = IF calls' = <<>> THEN {}
                                               ELSE {[ticket |-> args.ticket,
                                                      tp |-> positions[args.ticket].tp]}]

\* Broker.robust_positions_get at line 108: positions_get returns None, and
\* again after the reinitialization (or that fails).
StartupProviderFailure ==
    /\ run.pc = "startup"
    /\ ~args.all
    /\ error' = "RuntimeError"
    /\ run' = [run EXCEPT !.pc = "start_failed"]
    /\ NoTrail
    /\ UNCHANGED <<positions, pos, active_tickets, args, auto_positions,
                   chained_positions>>

\* The same at line 141, in the loop: RuntimeError, which the loop does not
\* catch.
ProviderFailure ==
    /\ run.pc = "fetch"
    /\ Raise("RuntimeError", NoTicket)
    /\ NoTrail
    /\ UNCHANGED <<positions, pos, active_tickets, args, auto_positions,
                   chained_positions>>

\* Lines 141-145: every open position is fetched (the ticket filter is
\* None), new_tickets is what is open and not tracked.
CycleStart ==
    /\ run.pc = "fetch"
    /\ run' = [run EXCEPT !.pc = "scan",
                          !.new_tickets = OpenTickets \ active_tickets,
                          !.ticket = NoTicket,
                          !.trailed = <<>>,
                          !.requests = {}]
    /\ NoTrail
    /\ UNCHANGED <<positions, pos, error, active_tickets, args, auto_positions,
                   chained_positions>>

\* trigger_auto and what follows it (lines 155-165, 192-202) for the snapshot
\* p of t: modify_sl with the stop of p and take-profit 0.0; when the
\* terminal applies it (ok), the position is fetched again and
\* auto_positions gets the ticket.
TriggerAuto(t, p, ok, next_pc) ==
    /\ IF ok
       THEN /\ positions' = [positions EXCEPT ![t].tp = 0]
            /\ IF LocalsBound
               THEN /\ auto_positions' =
                          Put(auto_positions, t,
                              [target |-> NoTarget,
                               direction |-> IF p.is_buy THEN "buy" ELSE "sell",
                               volume |-> p.volume,
                               last_sl |-> p.sl])
                    /\ run' = [run EXCEPT !.pc = next_pc, !.ticket = t,
                                          !.new_tickets = run.new_tickets \ {t},
                                          !.poll_tickets = run.poll_tickets \ {t},
                                          !.requests = {[ticket |-> t, tp |-> p.tp]}]
                    /\ UNCHANGED error
               ELSE /\ error' = "UnboundLocalError"
                    /\ run' = [run EXCEPT !.pc = "crashed", !.ticket = t,
                                          !.requests = {[ticket |-> t, tp |-> p.tp]}]
                    /\ UNCHANGED auto_positions
       ELSE /\ run' = [run EXCEPT !.pc = next_pc, !.ticket = t,
                                  !.new_tickets = run.new_tickets \ {t},
                                  !.poll_tickets = run.poll_tickets \ {t},
                                  !.requests = {[ticket |-> t, tp |-> p.tp]}]
            /\ UNCHANGED <<positions, auto_positions, error>>

\* Lines 147-165: the new ticket is fetched; a sentinel take-profit triggers
\* auto mode.
ScanFetch(t) ==
    /\ run.pc = "scan"
    /\ t \in run.new_tickets
    /\ NoTrail
    /\ UNCHANGED <<pos, active_tickets, args, chained_positions>>
    /\ IF IsAutoTrigger(positions[t])
       THEN \E ok \in BOOLEAN : TriggerAuto(t, positions[t], ok, "scan_trail")
       ELSE /\ run' = [run EXCEPT !.pc = "scan_trail", !.ticket = t,
                                  !.new_tickets = run.new_tickets \ {t},
                                  !.requests = {}]
            /\ UNCHANGED <<positions, auto_positions, error>>

\* Lines 167-175: the ticket is skipped when --ignore-tp-positions is set
\* and it carries a take-profit (auto and chained tickets are exempt);
\* otherwise it is trailed and tracked.
ScanTrail ==
    LET t == run.ticket
        p == positions[t]
    IN  /\ run.pc = "scan_trail"
        /\ UNCHANGED <<args, auto_positions, chained_positions>>
        /\ IF args.ignore_tp_positions /\ p.tp # 0 /\ ~LocalsBound
           THEN /\ Raise("UnboundLocalError", t)
                /\ NoTrail
                /\ UNCHANGED <<positions, pos, active_tickets>>
           ELSE IF /\ args.ignore_tp_positions
                   /\ p.tp # 0
                   /\ t \notin DOMAIN auto_positions
                   /\ t \notin chained_positions
           THEN /\ run' = [run EXCEPT !.pc = "scan", !.requests = {}]
                /\ NoTrail
                /\ UNCHANGED <<positions, pos, error, active_tickets>>
           ELSE /\ TrailOn(t, RunnerRatios, RunnerAtrValues)
                /\ UNCHANGED <<rates, aside>>
                /\ run' = [run EXCEPT !.pc = "scan",
                                      !.trailed = Counted(t),
                                      !.requests = IF calls' = <<>> THEN {}
                                                   ELSE {[ticket |-> t, tp |-> p.tp]}]

\* Line 178: list(active_tickets), once the new tickets are done.
ActiveStart ==
    /\ run.pc = "scan"
    /\ run.new_tickets = {}
    /\ run' = [run EXCEPT !.pc = "poll", !.poll_tickets = active_tickets,
                          !.ticket = NoTicket, !.requests = {}]
    /\ NoTrail
    /\ UNCHANGED <<positions, pos, error, active_tickets, args, auto_positions,
                   chained_positions>>

\* Lines 179-202: the tracked ticket is fetched.  Not reported: it is
\* forgotten.  Reported: a sentinel take-profit triggers auto mode, unless
\* the ticket is in auto_positions already.
PollFetch(t) ==
    /\ run.pc = "poll"
    /\ t \in run.poll_tickets
    /\ NoTrail
    /\ UNCHANGED <<pos, args>>
    /\ IF ~LocalsBound
       THEN /\ Raise("UnboundLocalError", t)
            /\ UNCHANGED <<positions, active_tickets, auto_positions,
                           chained_positions>>
       ELSE IF t \notin OpenTickets
       THEN /\ auto_positions' = Drop(auto_positions, t)
            /\ chained_positions' = chained_positions \ {t}
            /\ active_tickets' = active_tickets \ {t}
            /\ run' = [run EXCEPT !.poll_tickets = run.poll_tickets \ {t},
                                  !.ticket = t, !.requests = {}]
            /\ UNCHANGED <<positions, error>>
       ELSE IF t \notin DOMAIN auto_positions /\ IsAutoTrigger(positions[t])
       THEN /\ \E ok \in BOOLEAN : TriggerAuto(t, positions[t], ok, "poll_trail")
            /\ UNCHANGED <<active_tickets, chained_positions>>
       ELSE /\ run' = [run EXCEPT !.pc = "poll_trail", !.ticket = t,
                                  !.poll_tickets = run.poll_tickets \ {t},
                                  !.requests = {}]
            /\ UNCHANGED <<positions, error, active_tickets, auto_positions,
                           chained_positions>>

\* Lines 204-211: a tracked ticket that carries a take-profit is dropped
\* when --ignore-tp-positions is set (auto and chained tickets are exempt);
\* otherwise it is trailed.
PollTrail ==
    LET t == run.ticket
        p == positions[t]
    IN  /\ run.pc = "poll_trail"
        /\ UNCHANGED <<args, auto_positions, chained_positions>>
        /\ IF /\ args.ignore_tp_positions
              /\ p.tp # 0
              /\ t \notin DOMAIN auto_positions
              /\ t \notin chained_positions
           THEN /\ active_tickets' = active_tickets \ {t}
                /\ run' = [run EXCEPT !.pc = "poll", !.requests = {}]
                /\ NoTrail
                /\ UNCHANGED <<positions, pos, error>>
           ELSE /\ TrailOn(t, RunnerRatios, RunnerAtrValues)
                /\ UNCHANGED <<rates, aside>>
                /\ run' = [run EXCEPT !.pc = "poll_chain",
                                      !.trailed = Counted(t),
                                      !.requests = IF calls' = <<>> THEN {}
                                                   ELSE {[ticket |-> t, tp |-> p.tp]}]

\* The position Broker.open_market_position opens for the record ap, at the
\* price of the tick.
ChainedPosition(n, ap, price) ==
    [ticket |-> n, is_buy |-> ap.direction = "buy", volume |-> ap.volume,
     price_open |-> price, price_current |-> price, sl |-> 0, profit |-> 0,
     swap |-> 0, tp |-> ap.target]

\* room_condition (lines 235-246): with a target, one stop distance beyond
\* the current price is still short of it.
RoomCondition(ap, price, cur_sl) ==
    IF ap.target = NoTarget THEN TRUE
    ELSE IF ap.direction = "buy" THEN price + (price - cur_sl) < ap.target
    ELSE price - (cur_sl - price) > ap.target

\* Lines 213-263, after the trail call, for the snapshot p it was made with:
\* an auto ticket takes a trader's take-profit as its target; when its stop
\* is set and is not the one seen last, a position is added in its
\* direction, if go (the trend has not reversed, there is a tick, the free
\* margin suffices, the order is filled) and there is room to the target.
PollChain ==
    LET t == run.ticket
        p == pos
    IN  /\ run.pc = "poll_chain"
        /\ NoTrail
        /\ UNCHANGED <<pos, error, active_tickets, args>>
        /\ IF t \notin DOMAIN auto_positions
           THEN /\ run' = [run EXCEPT !.pc = "poll", !.requests = {}]
                /\ UNCHANGED <<positions, auto_positions, chained_positions>>
           ELSE LET ap == auto_positions[t]
                    target == IF ap.target = NoTarget /\ p.tp # 0 /\ ~IsAutoTrigger(p)
                              THEN p.tp ELSE ap.target
                    seen == [ap EXCEPT !.target = target]
                    anchor == [seen EXCEPT !.last_sl = p.sl]
                    n == run.next_ticket
                IN  IF p.sl # 0 /\ p.sl # ap.last_sl
                    THEN \E go \in (IF n <= LastTicket THEN BOOLEAN ELSE {FALSE}) :
                           IF go /\ RoomCondition(anchor, p.price_current, p.sl)
                           THEN /\ positions' = Put(positions, n,
                                       ChainedPosition(n, anchor, p.price_current))
                                /\ chained_positions' = chained_positions \cup {n}
                                /\ auto_positions' =
                                       Put(Put(auto_positions, t, anchor), n,
                                           [anchor EXCEPT !.last_sl = 0])
                                /\ run' = [run EXCEPT !.pc = "poll", !.requests = {},
                                                      !.next_ticket = n + 1]
                           ELSE /\ auto_positions' = Put(auto_positions, t, anchor)
                                /\ run' = [run EXCEPT !.pc = "poll", !.requests = {}]
                                /\ UNCHANGED <<positions, chained_positions>>
                    ELSE /\ auto_positions' = Put(auto_positions, t, seen)
                         /\ run' = [run EXCEPT !.pc = "poll", !.requests = {}]
                         /\ UNCHANGED <<positions, chained_positions>>

\* Lines 265-273: without --all the loop is left when nothing is tracked;
\* otherwise the runner sleeps and goes round.
CycleEnd ==
    /\ run.pc = "poll"
    /\ run.poll_tickets = {}
    /\ run' = [run EXCEPT !.pc = IF active_tickets = {} /\ ~args.all
                                 THEN "exited" ELSE "fetch",
                          !.ticket = NoTicket, !.trailed = <<>>,
                          !.requests = {}]
    /\ NoTrail
    /\ UNCHANGED <<positions, pos, error, active_tickets, args, auto_positions,
                   chained_positions>>

\* The pc values of the poll loop.
InLoop == run.pc \in {"fetch", "scan", "scan_trail", "poll", "poll_trail", "poll_chain"}

\* Line 274: Ctrl-C, while the runner sleeps.
KeyboardInterrupt ==
    /\ run.pc = "fetch"
    /\ run' = [run EXCEPT !.pc = "interrupted", !.requests = {}]
    /\ NoTrail
    /\ UNCHANGED <<positions, pos, error, active_tickets, args, auto_positions,
                   chained_positions>>

\* The trader gives a position that has no take-profit one.
SetTakeProfit(t, tp) ==
    /\ positions[t].tp = 0
    /\ tp # 0
    /\ positions' = [positions EXCEPT ![t].tp = tp]
    /\ NoTrail
    /\ UNCHANGED <<pos, error, active_tickets>>

\* The broker's side moves before the runner fetches: at the start and
\* between two cycles.
BetweenCycles == run.pc \in {"startup", "fetch"}

RunnerNext ==
    \/ StartupAll
    \/ StartupSingle
    \/ StartupProviderFailure
    \/ ProviderFailure
    \/ CycleStart
    \/ \E t \in run.new_tickets : ScanFetch(t)
    \/ ScanTrail
    \/ ActiveStart
    \/ \E t \in run.poll_tickets : PollFetch(t)
    \/ PollTrail
    \/ PollChain
    \/ CycleEnd
    \/ KeyboardInterrupt
    \/ /\ BetweenCycles
       /\ \E t \in OpenTickets : Close(t)
       /\ run' = [run EXCEPT !.requests = {}]
       /\ UNCHANGED <<args, auto_positions, chained_positions, rates, aside>>
    \/ /\ BetweenCycles
       /\ \E t \in OpenTickets :
              \E tp \in TakeProfits(positions[t].is_buy) : SetTakeProfit(t, tp)
       /\ run' = [run EXCEPT !.requests = {}]
       /\ UNCHANGED <<args, auto_positions, chained_positions>>

RunnerSpec == RunnerInit /\ [][RunnerNext]_vars

\* ---------------------------------------------------------- the estimators
\* _get_volume_ratio and _get_atr of VolumeATRTrailing, on the bars of the
\* terminal.  rates.bars is the history of the symbol, oldest bar first;
\* rates.none says that copy_rates_from_pos returns None (no connection, no
\* such symbol).  A ratio or an average is a rational <<n, d>> in lowest
\* terms; 1.0 is <<1, 1>>.

\* config.py; the true-range period of the M1 call is
\* max(ATR_PERIOD // 3, ATR_M1_FLOOR).
VOLUME_LOOKBACK == 10
ATR_PERIOD == 10
ATR_M1_FLOOR == 5
VOLUME_EXTRA_BARS == 10
ATR_EXTRA_BARS == 20
\* The fallback of get_atr in the legacy script, in points.
LEGACY_FALLBACK_ATR == 100

\* Bars of history the model grows.
MaxBars == 11

\* The two kinds of bar: a quiet one without a tick counted, a busy one.
Bars ==
    {[tick_volume |-> 0, high |-> 110010, low |-> 109990, close |-> 110000],
     [tick_volume |-> 120, high |-> 110100, low |-> 110000, close |-> 110080]}

\* mt5.copy_rates_from_pos(symbol, timeframe, 0, count): None, or the last
\* count bars (all of them when there are fewer).
CopyRates(count) ==
    IF rates.none THEN rates
    ELSE [rates EXCEPT !.bars =
             SubSeq(rates.bars, Max(1, Len(rates.bars) - count + 1), Len(rates.bars))]

RECURSIVE SumTickVolume(_, _, _)
SumTickVolume(bars, from, to) ==
    IF from > to THEN 0
    ELSE bars[from].tick_volume + SumTickVolume(bars, from + 1, to)

Abs(x) == IF x < 0 THEN -x ELSE x

\* The true range of bar i: there is no previous close for the first bar,
\* and max(axis=1) skips the two missing terms.
TrueRange(bars, i) ==
    IF i = 1 THEN bars[i].high - bars[i].low
    ELSE Max(bars[i].high - bars[i].low,
             Max(Abs(bars[i].high - bars[i - 1].close),
                 Abs(bars[i].low - bars[i - 1].close)))

RECURSIVE SumTrueRange(_, _, _)
SumTrueRange(bars, from, to) ==
    IF from > to THEN 0
    ELSE TrueRange(bars, from) + SumTrueRange(bars, from + 1, to)

\* GetVolumeRatio with the bar before the most recent one as the numerator,
\* as get_volume_ratio of the legacy script has it.
GetVolumeRatio_PreviousBar(r) ==
    IF r.none \/ Len(r.bars) < VOLUME_LOOKBACK THEN <<1, 1>>
    ELSE LET n == Len(r.bars)
             cur == r.bars[n - 1].tick_volume
         IN  IF n - 1 < VOLUME_LOOKBACK THEN <<1, 1>>
             ELSE LET total == SumTickVolume(r.bars, n - VOLUME_LOOKBACK, n - 1)
                  IN  IF total > 0 THEN QNorm(<<cur * VOLUME_LOOKBACK, total>>)
                      ELSE <<1, 1>>

\* _get_volume_ratio on the fetched r.  rolling(VOLUME_LOOKBACK).mean() at
\* iloc[-2] is NaN when fewer than VOLUME_LOOKBACK bars end there, and
\* `NaN > 0` is False.
GetVolumeRatio(r) ==
    IF r.none \/ Len(r.bars) < VOLUME_LOOKBACK THEN <<1, 1>>
    ELSE LET n == Len(r.bars)
             cur == r.bars[n].tick_volume
         IN  IF n - 1 < VOLUME_LOOKBACK THEN <<1, 1>>
             ELSE LET total == SumTickVolume(r.bars, n - VOLUME_LOOKBACK, n - 1)
                  IN  IF total > 0 THEN QNorm(<<cur * VOLUME_LOOKBACK, total>>)
                      ELSE <<1, 1>>

\* GetAtr with the fallback of the legacy script.
GetAtr_LegacyFallback(r, period) ==
    IF r.none \/ Len(r.bars) <= period THEN QInt(POINT * LEGACY_FALLBACK_ATR)
    ELSE LET n == Len(r.bars)
         IN  QNorm(<<SumTrueRange(r.bars, n - period + 1, n), period>>)

\* GetAtr with the mean taken at the bar before the most recent one, as
\* get_atr of the legacy script has it (iloc[-2]).
GetAtr_PreviousBar(r, period) ==
    IF r.none \/ Len(r.bars) <= period THEN QInt(POINT * FALLBACK_ATR)
    ELSE LET n == Len(r.bars)
         IN  QNorm(<<SumTrueRange(r.bars, n - period, n - 1), period>>)

\* _get_atr on the fetched r, with the symbol's metadata at hand.
GetAtr(r, period) ==
    IF r.none \/ Len(r.bars) <= period THEN QInt(POINT * FALLBACK_ATR)
    ELSE LET n == Len(r.bars)
         IN  QNorm(<<SumTrueRange(r.bars, n - period + 1, n), period>>)

\* The period of the call that trail has just made to _get_atr.
AtrPeriod(b) ==
    IF b = "atr_m5" THEN ATR_PERIOD ELSE Max(ATR_PERIOD \div 3, ATR_M1_FLOOR)

\* What an estimator step leaves alone.
EstimatorFrame ==
    /\ calls' = <<>>
    /\ UNCHANGED <<engine, info, positions, pos, error, engine_sl,
                   active_tickets, runner, aside>>

\* The market closes a bar.
NewBar(b) ==
    /\ Len(rates.bars) < MaxBars
    /\ rates' = [rates EXCEPT !.bars = Append(@, b)]
    /\ branch' = "none"
    /\ calc' = NoCalc
    /\ EstimatorFrame

\* The terminal loses the data of the symbol, or gets it back.
RatesAvailability ==
    /\ rates' = [rates EXCEPT !.none = ~@]
    /\ branch' = "none"
    /\ calc' = NoCalc
    /\ EstimatorFrame

\* calculate_next_sl, line 87: self._get_volume_ratio(pos.symbol).
CallGetVolumeRatio ==
    /\ calc' = [NoCalc EXCEPT
                   !.vol_ratio = GetVolumeRatio(CopyRates(VOLUME_LOOKBACK + VOLUME_EXTRA_BARS))]
    /\ branch' = "volume_ratio"
    /\ UNCHANGED <<rates, aside>>
    /\ EstimatorFrame

\* calculate_next_sl, lines 100-101: self._get_atr(pos.symbol, TIMEFRAME_M5)
\* and self._get_atr(pos.symbol, TIMEFRAME_M1, max(ATR_PERIOD//3, 5)).
CallGetAtr(b) ==
    /\ calc' = [NoCalc EXCEPT
                   !.atr = GetAtr(CopyRates(AtrPeriod(b) + ATR_EXTRA_BARS), AtrPeriod(b))]
    /\ branch' = b
    /\ UNCHANGED <<rates, aside>>
    /\ EstimatorFrame

EstimatorInit ==
    /\ first_sl_set = Tickets
    /\ cleaned_preexisting_sl = {}
    /\ last_profit = <<>>
    /\ last_monitor_log = {}
    /\ info \in SymbolInfos
    /\ positions \in [Tickets -> {q \in ScenarioSnapshots :
                                       /\ q.is_buy
                                       /\ q.swap = -20
                                       /\ q.sl = PRICE_OPEN + 200
                                       /\ q.profit = 3450
                                       /\ q.price_current = PRICE_OPEN + 400}]
    /\ pos = positions[TICKET]
    /\ calls = <<>>
    /\ branch = "none"
    /\ calc = NoCalc
    /\ error = "none"
    /\ engine_sl = {t \in Tickets : positions[t].sl # 0}
    /\ active_tickets = Tickets
    /\ RunnerAtRest

EstimatorNext ==
    \/ \E b \in Bars : NewBar(b)
    \/ RatesAvailability
    \/ CallGetVolumeRatio
    \/ \E b \in {"atr_m5", "atr_m1"} : CallGetAtr(b)

EstimatorSpec == EstimatorInit /\ [][EstimatorNext]_vars

TypeOK ==
    /\ first_sl_set \subseteq Tickets
    /\ cleaned_preexisting_sl \subseteq Tickets
    /\ DOMAIN last_profit \subseteq Tickets
    /\ last_monitor_log \subseteq Tickets
    /\ info \in SymbolInfos
    /\ Len(calls) <= 1
    /\ error \in {"none", "AttributeError"}
    /\ engine_sl \subseteq Tickets
    /\ active_tickets \subseteq Tickets

\* ------------------------------------------------------- the legacy script
\* trail_position of src/trail_my_trade.py, the script the package grew out
\* of, with its own configuration.  It keeps no state but _active_tickets,
\* which only decides what it prints.  Money is in half cents; the
\* commission estimate is a rational, a fraction of a half cent.

LEGACY_BASE_MULTIPLIER == 3000
LEGACY_MIN_MULTIPLIER == 1500
LEGACY_MAX_MULTIPLIER == 6000
\* VOLUME_SENSITIVITY = 1.5: the exponent 1 / 1.5 is LEGACY_POWER / LEGACY_ROOT.
LEGACY_POWER == 2
LEGACY_ROOT == 3
EXTRA_SAFETY_BUFFER == 200
\* info.trade_tick_value, dollars a tick and lot.
TRADE_TICK_VALUE == 1
\* commission_est = |volume * price_open * trade_tick_value| * 0.0003
COMMISSION_RATE == <<3, 10000>>
\* The root of the multiplier is taken to tenths.
LEGACY_ROOT_SCALE == 10

\* What get_volume_ratio and get_atr return (hundredths; points): the
\* multiplier is exact for these ratios (1.5 clipped, 3.0, 6.0 clipped).
LegacyRatios == {0, 100, 800}
LegacyAtrValues == {20, LEGACY_FALLBACK_ATR}

\* np.clip(BASE_MULTIPLIER * (vol_ratio ** (1/VOLUME_SENSITIVITY)), MIN, MAX)
\* in thousandths.
LegacyMultiplier(ratio) ==
    LET scaled == (IPow(ratio, LEGACY_POWER) * IPow(LEGACY_ROOT_SCALE, LEGACY_ROOT))
                      \div IPow(RATIO_SCALE, LEGACY_POWER)
        root == RootSearch(scaled, LEGACY_ROOT, 0, RATIO_SCALE)
        raw == (LEGACY_BASE_MULTIPLIER * root) \div LEGACY_ROOT_SCALE
    IN  Min(Max(raw, LEGACY_MIN_MULTIPLIER), LEGACY_MAX_MULTIPLIER)

LegacyMultiplierTable == [ratio \in LegacyRatios |-> LegacyMultiplier(ratio)]

\* commission_est, in half cents.
CommissionEst(p) ==
    QMul(QMul(QNorm(<<p.volume * TRADE_TICK_VALUE, LOT_SCALE>>),
              QNorm(<<p.price_open, POINTS_PER_UNIT>>)),
         QMul(COMMISSION_RATE, QInt(MONEY_SCALE)))

QAdd(x, y) == QNorm(<<x[1] * y[2] + y[1] * x[2], x[2] * y[2]>>)

\* required_broker_profit = max(0.0, commission_est + EXTRA_SAFETY_BUFFER - pos.swap)
RequiredBrokerProfit(p) ==
    QMax(QInt(0), QAdd(CommissionEst(p), QInt(EXTRA_SAFETY_BUFFER - p.swap)))

\* profit_if_hit for the stop new_sl.
LegacyProfitIfHit(p, new_sl) ==
    LET diff == IF p.is_buy THEN new_sl - p.price_open ELSE p.price_open - new_sl
        c == CommissionEst(p)
    IN  QAdd(QInt(diff * Contract(p) + p.swap), <<-c[1], c[2]>>)

\* The first safe stop: the closest one the broker allows.
FirstSafeSl(p, inf) ==
    IF p.is_buy THEN p.price_current - MinDist(inf)
    ELSE p.price_current + MinDist(inf)

\* The first safe stop after `# Apply ratchet`.
RatchetedSafeSl(p, inf) ==
    IF p.sl > 0
    THEN IF p.is_buy THEN Max(FirstSafeSl(p, inf), p.sl)
         ELSE Min(FirstSafeSl(p, inf), p.sl)
    ELSE FirstSafeSl(p, inf)

\* `if pos.sl == 0 or new_sl > pos.sl` (`<` for a short).
FirstSafeDue(p, new_sl) ==
    \/ p.sl = 0
    \/ IF p.is_buy THEN new_sl > p.sl ELSE new_sl < p.sl

\* The normal volume-adjusted trailing: the stop before rounding.
VolumeAdjustedSl(p, inf, mult, atr) ==
    LET dist == QNorm(<<mult * atr, MULT_SCALE>>)
    IN  IF p.is_buy
        THEN QMax(QMin(<<p.price_current * dist[2] - dist[1], dist[2]>>,
                       QInt(p.price_current - MinDist(inf))),
                  QInt(p.sl))
        ELSE QMin(QMax(<<p.price_current * dist[2] + dist[1], dist[2]>>,
                       QInt(p.price_current + MinDist(inf))),
                  QInt(p.sl))

\* `if new_sl > pos.sl + info.point` (`<` and `-` for a short).
VolumeAdjustedDue(p, new_sl) ==
    IF p.is_buy THEN QLess(QInt(p.sl + POINT), new_sl)
    ELSE QLess(new_sl, QInt(p.sl - POINT))

\* send_modify(pos, new_sl, ...): the request carries round(new_sl, digits);
\* the terminal applies it or not.
SendModify(t, new_sl, b) ==
    \E ok \in BOOLEAN :
        /\ positions' = ModifySl(t, new_sl, ok)
        /\ engine_sl' = EngineSl(t, new_sl, ok)
        /\ calls' = Call(new_sl, ok)
        /\ branch' = b

\* Nothing is sent.
SendNothing(b) ==
    /\ calls' = <<>>
    /\ branch' = b
    /\ UNCHANGED <<positions, engine_sl>>

\* trail_position(pos) on the snapshot just fetched, with the symbol's
\* metadata at hand.  ratio and atr are what get_volume_ratio and get_atr
\* return at that moment; calc keeps them, and the multiplier that goes with
\* the ratio, whether or not the invocation gets as far as asking for them.
TrailPosition(t, ratio, atr) ==
    LET p == Snapshot(t)
        mult == LegacyMultiplierTable[ratio]
        safe == RatchetedSafeSl(p, info)
        adjusted == VolumeAdjustedSl(p, info, mult, atr)
    IN  /\ pos' = p
        /\ error' = "none"
        /\ calc' = [vol_ratio |-> ratio, mult |-> mult, atr |-> QInt(atr)]
        /\ IF QLess(QInt(p.profit), RequiredBrokerProfit(p))
           THEN /\ IF p.sl > 0
                   THEN SendModify(t, 0, "legacy_removed")
                   ELSE SendNothing("legacy_below")
                /\ UNCHANGED _active_tickets
           ELSE /\ _active_tickets' = _active_tickets \cup {t}
                /\ IF QLess(LegacyProfitIfHit(p, FirstSafeSl(p, info)),
                            QInt(EXTRA_SAFETY_BUFFER))
                   THEN SendNothing("legacy_wait")
                   ELSE IF FirstSafeDue(p, safe)
                   THEN SendModify(t, safe, "legacy_first")
                   ELSE IF VolumeAdjustedDue(p, adjusted)
                   THEN SendModify(t, Round(adjusted), "legacy_trailed")
                   ELSE SendNothing("legacy_held")
        /\ UNCHANGED <<engine, info, active_tickets, runner, rates, provider>>

LegacyBranches ==
    {"legacy_removed", "legacy_below", "legacy_wait", "legacy_first",
     "legacy_trailed", "legacy_held"}

LegacyNext ==
    \/ \E t \in OpenTickets : \E ratio \in LegacyRatios, atr \in LegacyAtrValues :
           TrailPosition(t, ratio, atr)
    \/ /\ \E t \in OpenTickets, off \in PriceOffsets : PriceMove(t, off)
       /\ RunnerUnchanged
    \/ /\ \E t \in OpenTickets, profit \in Profits : ProfitChange(t, profit)
       /\ RunnerUnchanged
    \/ /\ \E t \in OpenTickets : \E sl \in ForeignStops(t) : ForeignModify(t, sl)
       /\ RunnerUnchanged

LegacySpec == Init /\ [][LegacyNext]_vars

\* ------------------------------------------------------ BasicTrailingEngine
\* trailing/base.py: the concrete base for simple engines.  Its only state is
\* first_sl_set.  No class of the repository overrides calculate_next_sl,
\* which raises NotImplementedError.

BASE_PROFIT_TO_ACTIVATE == 2000
\* 0.67, in hundredths.
THRESHOLD_FACTOR_PER_MARGIN == 67
SL_BUFFER_BASE_POINTS == 30
SL_BUFFER_PER_LOT == 20
\* What mt5.order_calc_margin answers for the position, in dollars: a figure
\* whose square root is exact.
POSITION_MARGIN == 25

\* _get_profit_threshold, in half cents.
ProfitThreshold(p) ==
    BASE_PROFIT_TO_ACTIVATE
        + (RootSearch(POSITION_MARGIN, 2, 0, POSITION_MARGIN)
               * THRESHOLD_FACTOR_PER_MARGIN * MONEY_SCALE) \div RATIO_SCALE

\* _get_min_dist, in points.
GetMinDist(p, inf) ==
    Max(inf.trade_stops_level,
        (SL_BUFFER_BASE_POINTS * LOT_SCALE + p.volume * SL_BUFFER_PER_LOT) \div LOT_SCALE)
        * POINT

\* math.ceil(n / d) for d > 0.
Ceil(n, d) == -((-n) \div d)

BasicShouldSetInitialSl(fs, p) ==
    p.profit >= ProfitThreshold(p) /\ p.ticket \notin fs

\* BasicTrailingEngine.calculate_initial_sl; robust_order_calc_profit gives
\* the price difference times the contract (an account in dollars).
BasicCalculateInitialSl(p, inf) ==
    LET diff == IF p.is_buy THEN p.price_current - p.price_open
                ELSE p.price_open - p.price_current
        required_raw == ProfitThreshold(p) - p.swap + Commission(p)
        required_points == Ceil(required_raw, Contract(p) * POINT)
        required_diff == required_points * POINT
        min_dist == GetMinDist(p, inf)
    IN  IF diff = 0 THEN 0
        ELSE IF p.is_buy
        THEN Min(p.price_open + required_diff, p.price_current - min_dist)
        ELSE Max(p.price_open - required_diff, p.price_current + min_dist)

\* BasicTrailingEngine.trail(pos) on the snapshot just fetched.  The initial
\* placement does not return: with a stop on the snapshot the invocation goes
\* on to calculate_next_sl, which raises.
BasicTrail(t) ==
    LET p == Snapshot(t)
    IN  /\ pos' = p
        /\ calc' = NoCalc
        /\ IF p.profit < ProfitThreshold(p) /\ p.sl # 0
           THEN /\ \E ok \in BOOLEAN :
                     /\ positions' = ModifySl(t, 0, ok)
                     /\ engine_sl' = EngineSl(t, 0, ok)
                     /\ calls' = Call(0, ok)
                /\ branch' = "basic_removed"
                /\ error' = "none"
                /\ UNCHANGED first_sl_set
           ELSE /\ IF BasicShouldSetInitialSl(first_sl_set, p)
                   THEN \E ok \in BOOLEAN :
                            LET sl == BasicCalculateInitialSl(p, info)
                            IN  /\ positions' = ModifySl(t, sl, ok)
                                /\ engine_sl' = EngineSl(t, sl, ok)
                                /\ calls' = Call(sl, ok)
                                /\ first_sl_set' = IF ok THEN first_sl_set \cup {t}
                                                   ELSE first_sl_set
                                /\ branch' = "basic_initial"
                   ELSE /\ calls' = <<>>
                        /\ branch' = "basic_idle"
                        /\ UNCHANGED <<positions, engine_sl, first_sl_set>>
                /\ error' = IF p.sl # 0 THEN "NotImplementedError" ELSE "none"
        /\ UNCHANGED <<cleaned_preexisting_sl, last_profit, last_monitor_log, info,
                       active_tickets, runner, rates, aside>>

BasicBranches == {"basic_removed", "basic_initial", "basic_idle"}

BasicNext ==
    \/ /\ \E t \in OpenTickets : BasicTrail(t)
    \/ /\ \E t \in OpenTickets, off \in PriceOffsets : PriceMove(t, off)
       /\ RunnerUnchanged
    \/ /\ \E t \in OpenTickets, profit \in Profits : ProfitChange(t, profit)
       /\ RunnerUnchanged
    \/ /\ \E t \in OpenTickets : \E sl \in ForeignStops(t) : ForeignModify(t, sl)
       /\ RunnerUnchanged

\* The poller keeps invoking the engine.
BasicSpec ==
    /\ Init
    /\ [][BasicNext]_vars
    /\ WF_vars(\E t \in OpenTickets : BasicTrail(t))

\* ---------------------------------------------------- robust_positions_get
\* Broker.robust_positions_get(symbol, ticket), broker.py lines 61-79, on a
\* terminal whose every call may fail: positions_get may return None,
\* initialize may return False.  provider.calls are the calls of the
\* terminal that one call of robust_positions_get makes, in order:
\*   fn       "positions_get" or "initialize"
\*   ok       positions_get did not return None; initialize returned True
\*   tickets  the tickets of the positions that positions_get returned
\* provider.returned are the tickets of the tuple it returns; when it raises,
\* error is "RuntimeError".

\* The ticket filters of the calls: None, and the tickets there are.
TicketFilters == {NoTicket} \cup RunnerTickets

\* What fetch() gets from the terminal: None, or the open positions that
\* pass the filter.
FetchAnswers(ticket) ==
    {[none |-> TRUE, tickets |-> {}],
     [none |-> FALSE,
      tickets |-> IF ticket = NoTicket THEN OpenTickets
                  ELSE OpenTickets \cap {ticket}]}

\* `positions is None` with an empty tuple taken for a failure as well.
FetchFailed_Falsy(r) == r.none \/ r.tickets = {}

\* `positions is None`
FetchFailed(r) == r.none

PositionsGetCall(r) == [fn |-> "positions_get", ok |-> ~r.none, tickets |-> r.tickets]
InitializeCall(ok) == [fn |-> "initialize", ok |-> ok, tickets |-> {}]

\* The call returns the positions r (`positions or ()`), having made the
\* calls cs.
Returns(cs, r) ==
    /\ provider' = [calls |-> cs, returned |-> r.tickets]
    /\ error' = "none"

\* The call raises RuntimeError, having made the calls cs.
Raises(cs) ==
    /\ provider' = [calls |-> cs, returned |-> {}]
    /\ error' = "RuntimeError"

RobustPositionsGet(ticket) ==
    /\ \E r1 \in FetchAnswers(ticket) :
           IF ~FetchFailed(r1) THEN Returns(<<PositionsGetCall(r1)>>, r1)
           ELSE \E init \in BOOLEAN :
                    IF ~init THEN Raises(<<PositionsGetCall(r1), InitializeCall(init)>>)
                    ELSE \E r2 \in FetchAnswers(ticket) :
                             LET cs == <<PositionsGetCall(r1), InitializeCall(init),
                                         PositionsGetCall(r2)>>
                             IN  IF FetchFailed(r2) THEN Raises(cs)
                                 ELSE Returns(cs, r2)
    /\ branch' = "robust_positions_get"
    /\ calls' = <<>>
    /\ calc' = NoCalc
    /\ UNCHANGED <<engine, info, positions, pos, engine_sl, active_tickets,
                   runner, rates, _active_tickets>>

ProviderInit ==
    /\ first_sl_set = {}
    /\ cleaned_preexisting_sl = {}
    /\ last_profit = <<>>
    /\ last_monitor_log = {}
    /\ info \in SymbolInfos
    /\ positions \in {f \in [RunnerTickets -> UNION {RunnerSnapshots(t) : t \in RunnerTickets}] :
                         \A t \in RunnerTickets : f[t].ticket = t}
    /\ pos = positions[TICKET]
    /\ calls = <<>>
    /\ branch = "none"
    /\ calc = NoCalc
    /\ error = "none"
    /\ engine_sl = {}
    /\ active_tickets = {}
    /\ RunnerAtRest

ProviderNext ==
    \/ \E ticket \in TicketFilters : RobustPositionsGet(ticket)
    \/ /\ \E t \in OpenTickets : Close(t)
       /\ RunnerUnchanged
    \/ /\ \E t \in OpenTickets, off \in PriceOffsets : PriceMove(t, off)
       /\ RunnerUnchanged

ProviderSpec == ProviderInit /\ [][ProviderNext]_vars

\* ------------------------------------------------------------- properties
\* The last step was an invocation of trail.
Invoked == branch # "none"

\* The stop prices the last invocation passed to Broker.modify_sl.
SentStops == {calls[i].sl : i \in 1..Len(calls)}

\* s is not on the loss side of r, for the position p.
NotLossSideOf(p, s, r) == IF p.is_buy THEN s >= r ELSE s <= r

\* C1: every nonzero stop the engine passes to modify_sl is not on the loss
\* side of the nonzero stop the snapshot reports (long: >= pos.sl, short:
\* <= pos.sl), in the initial placement as in the ratchet.
C1_NeverBackward ==
    \A s \in SentStops : (s # 0 /\ pos.sl # 0) => NotLossSideOf(pos, s, pos.sl)

\* C2: every nonzero stop the engine sends lies strictly on the profit side
\* of the entry price, whatever stop the snapshot reports.
C2_ProfitSideOfEntry ==
    \A s \in SentStops : s # 0 =>
        IF pos.is_buy THEN s > pos.price_open ELSE s < pos.price_open

\* C3: every nonzero stop the engine sends keeps at least
\* max(trade_stops_level * point, 30 * point) from the current price on the
\* protective side.
C3_MinDistance ==
    \A s \in SentStops : s # 0 =>
        LET min_dist == IF info.trade_stops_level * POINT >= MIN_STOP_POINTS * POINT
                        THEN info.trade_stops_level * POINT
                        ELSE MIN_STOP_POINTS * POINT
        IN  IF pos.is_buy THEN s <= pos.price_current - min_dist
            ELSE s >= pos.price_current + min_dist

\* A ratchet step was sent with the distance clamp binding: the stop sits
\* exactly min_dist from the current price.
C3_Witness ==
    /\ branch = "trailed"
    /\ \E s \in SentStops :
          s = Favourable(pos.is_buy, pos.price_current, -MinDist(info))

\* C4: once the ticket is in first_sl_set, no invocation of trail for it
\* passes 0.0 to modify_sl.
C4_OwnedNeverRemoved ==
    [][(TICKET \in first_sl_set /\ Invoked')
         => \A i \in 1..Len(calls') : calls'[i].sl # 0]_vars

\* An owned ticket whose reported stop is nonzero was trailed again.
C4_Witness ==
    /\ TICKET \in first_sl_set
    /\ branch \in {"trailed", "held"}
    /\ pos.sl # 0

\* C5: a snapshot with profit below the activation threshold and a nonzero
\* stop on a ticket the engine does not own gets RemoveStop.
C5_LowProfitRemovesStop ==
    (/\ Invoked
     /\ pos.profit < PROFIT_TO_ACTIVATE_TRAILING
     /\ pos.sl # 0
     /\ pos.ticket \notin first_sl_set)
        => (Len(calls) = 1 /\ calls[1].sl = 0)

\* C6: an initial stop that is sent locks, by profit_if_sl_hit at the rounded
\* price, at least the activation threshold minus the tolerance.
C6_InitialLocksThreshold ==
    branch = "initial" =>
        \A s \in SentStops :
            ProfitIfSlHit(pos, s) >= PROFIT_TO_ACTIVATE_TRAILING - TOLERANCE

\* An initial stop was sent.
C6_Witness ==
    /\ branch = "initial"
    /\ Len(calls) = 1
    /\ calls[1].sl # 0

\* C7: the ticket enters first_sl_set only in an invocation whose snapshot
\* has profit >= PROFIT_TO_ACTIVATE_TRAILING + min_dist * volume *
\* contract_size + commission - swap.
C7_OwnedOnlyAboveThreshold ==
    [][(TICKET \notin first_sl_set /\ TICKET \in first_sl_set')
         => positions[TICKET].profit >=
                PROFIT_TO_ACTIVATE_TRAILING
                + MinDist(info) * Contract(positions[TICKET])
                + Commission(positions[TICKET]) - positions[TICKET].swap]_vars

\* The ticket became owned on a profit that clears the threshold by less
\* than the threshold itself.
C7_Witness ==
    /\ branch = "initial"
    /\ TICKET \in first_sl_set
    /\ pos.profit < 2 * RequiredProfit(pos, info)

\* The snapshot p is one for which trail places the initial stop: not owned,
\* no stop, profit at the threshold, initial stop passing both checks.
InitialPlaceable(p) ==
    /\ p.ticket \notin first_sl_set
    /\ p.sl = 0
    /\ p.profit >= RequiredProfit(p, info)
    /\ ProfitIfSlHit(p, CalculateInitialSl(p, info))
           >= PROFIT_TO_ACTIVATE_TRAILING - TOLERANCE
    /\ IF p.is_buy THEN CalculateInitialSl(p, info) > p.price_open
       ELSE CalculateInitialSl(p, info) < p.price_open

\* C8: for such a snapshot one invocation calls modify_sl once, with the
\* initial stop, and when the call succeeds the ticket is owned afterwards.
C8_InitialPlacement ==
    [][(InitialPlaceable(positions[TICKET]) /\ Invoked')
         => /\ Len(calls') = 1
            /\ calls'[1].sl = CalculateInitialSl(positions[TICKET], info)
            /\ calls'[1].ok => TICKET \in first_sl_set']_vars

\* The initial stop was placed successfully on a position without a stop.
C8_Witness ==
    /\ branch = "initial"
    /\ pos.sl = 0
    /\ calls[1].ok
    /\ TICKET \in first_sl_set
    /\ positions[TICKET].sl = calls[1].sl

\* C9: when modify_sl reports failure inside trail, first_sl_set and
\* cleaned_preexisting_sl are as they were before the invocation.
C9_FailureKeepsState ==
    [][(Invoked' /\ \E i \in 1..Len(calls') : ~calls'[i].ok)
         => /\ first_sl_set' = first_sl_set
            /\ cleaned_preexisting_sl' = cleaned_preexisting_sl]_vars

\* The snapshot p reaches the initial-placement branch and its initial stop
\* fails the profit guarantee or is not on the profit side of the entry.
InitialRefused(p) ==
    /\ ~(p.sl # 0 /\ p.ticket \notin cleaned_preexisting_sl
                  /\ p.ticket \notin first_sl_set)
    /\ p.ticket \notin first_sl_set
    /\ p.profit >= RequiredProfit(p, info)
    /\ \/ ProfitIfSlHit(p, CalculateInitialSl(p, info))
             < PROFIT_TO_ACTIVATE_TRAILING - TOLERANCE
       \/ IF p.is_buy THEN CalculateInitialSl(p, info) <= p.price_open
          ELSE CalculateInitialSl(p, info) >= p.price_open

\* C10: when the initial stop fails the profit guarantee or would sit on the
\* loss side of the entry, the invocation calls modify_sl not at all and
\* leaves first_sl_set and cleaned_preexisting_sl unchanged.
C10_RefusedPlacementIsNoOp ==
    [][(InitialRefused(positions[TICKET]) /\ Invoked')
         => /\ calls' = <<>>
            /\ first_sl_set' = first_sl_set
            /\ cleaned_preexisting_sl' = cleaned_preexisting_sl]_vars

\* A placement was refused because the stop would not be on the profit side
\* of the entry.
C10_Witness ==
    /\ branch = "skipped_negative_lock"
    /\ calls = <<>>
    /\ TICKET \notin first_sl_set

\* A placement was refused because the rounded stop locks too little.
InsufficientBufferReached == branch = "skipped_insufficient_buffer"

\* C11: a snapshot with a nonzero stop on a ticket the engine neither owns
\* nor has cleaned gets, whatever its profit, exactly one modify_sl call,
\* with 0.0, and nothing else: no ownership, no calculate_next_sl.
C11_ForeignStopRemovedOnFirstSight ==
    [][(/\ Invoked'
        /\ positions[TICKET].sl # 0
        /\ TICKET \notin first_sl_set
        /\ TICKET \notin cleaned_preexisting_sl)
         => /\ Len(calls') = 1
            /\ calls'[1].sl = 0
            /\ first_sl_set' = first_sl_set
            /\ last_profit' = last_profit
            /\ calc' = NoCalc]_vars

\* A foreign stop was removed from a position whose profit would have
\* activated the initial placement.
C11_Witness ==
    /\ branch = "cleanup"
    /\ pos.sl # 0
    /\ pos.profit >= RequiredProfit(pos, info)
    /\ calls = <<[sl |-> 0, ok |-> TRUE]>>
    /\ positions[TICKET].sl = 0

\* C12: no invocation of trail calls Broker.modify_sl more than once.
C12_AtMostOneInstruction == Len(calls) <= 1

\* An invocation called modify_sl once, in the ratchet.
C12_Witness ==
    /\ branch = "trailed"
    /\ Len(calls) = 1

\* C13: for an owned ticket a modify_sl call is made only with a stop more
\* than one point beyond the reported one in the protective direction (long:
\* new_sl > pos.sl + point, short: new_sl < pos.sl - point); otherwise the
\* invocation makes no call.
C13_OwnedMovesOnlyBeyondOnePoint ==
    [][(Invoked' /\ TICKET \in first_sl_set)
         => \A i \in 1..Len(calls') :
                IF positions[TICKET].is_buy
                THEN calls'[i].sl > positions[TICKET].sl + POINT
                ELSE calls'[i].sl < positions[TICKET].sl - POINT]_vars

\* The ratchet ran on an owned position that has a stop and made no call.
C13_Witness ==
    /\ branch = "held"
    /\ TICKET \in first_sl_set
    /\ pos.sl # 0
    /\ calls = <<>>

\* The invocation just made is scenario A: a long from 1.10000 at 1.10800,
\* profit $60, stop 1.10200, volume ratio 1.0, ATR 0.00120.
ScenarioA ==
    /\ Invoked
    /\ pos.is_buy
    /\ pos.price_open = 110000
    /\ pos.price_current = 110800
    /\ pos.profit = 12000
    /\ pos.sl = 110200
    /\ calc.vol_ratio = 100
    /\ calc.atr = <<120, 1>>

\* C14: in scenario A the multiplier is exactly 3.0 and the engine sends
\* SetStop(1.10440).
C14_ScenarioA ==
    ScenarioA => /\ calc.mult = 3000
                 /\ Len(calls) = 1
                 /\ calls[1].sl = 110440

\* C15: the multiplier is non-decreasing in the volume ratio (from one
\* calculate_next_sl to the next: a ratio at least as large gives a
\* multiplier at least as large), is exactly BASE_MULTIPLIER at ratio 1.0,
\* exactly MIN_MULTIPLIER at ratio 0.1 and exactly MAX_MULTIPLIER at 5.0.
C15_MultiplierMonotoneAndClipped ==
    [][/\ (calc.mult # 0 /\ calc'.mult # 0 /\ calc.vol_ratio <= calc'.vol_ratio)
            => calc.mult <= calc'.mult
       /\ calc'.mult # 0 =>
            /\ calc'.mult >= MIN_MULTIPLIER /\ calc'.mult <= MAX_MULTIPLIER
            /\ calc'.vol_ratio = 100 => calc'.mult = BASE_MULTIPLIER
            /\ calc'.vol_ratio = 10 => calc'.mult = MIN_MULTIPLIER
            /\ calc'.vol_ratio = 500 => calc'.mult = MAX_MULTIPLIER]_vars

\* calculate_next_sl ran at volume ratio 5.0 and clipped the multiplier.
C15_Witness ==
    /\ branch \in {"trailed", "held"}
    /\ calc.vol_ratio = 500
    /\ calc.mult = MAX_MULTIPLIER

\* C16: a ticket whose stop at the broker was put there by an engine
\* instance, and which the running instance does not own (the stop is the
\* previous instance's), gets no modify_sl call that removes the stop or puts
\* it further on the loss side.
C16_RestartKeepsProtection ==
    [][(/\ Invoked'
        /\ TICKET \in engine_sl
        /\ TICKET \notin first_sl_set)
         => \A i \in 1..Len(calls') :
                /\ calls'[i].sl # 0
                /\ NotLossSideOf(positions[TICKET], calls'[i].sl,
                                 positions[TICKET].sl)]_vars

\* C17: once the runner has observed that the broker does not report the
\* ticket any more, the ticket is in none of the engine's collections.
C17_ClosedTicketDropped ==
    (TICKET \notin OpenTickets /\ TICKET \notin active_tickets)
        => /\ TICKET \notin first_sl_set
           /\ TICKET \notin cleaned_preexisting_sl
           /\ TICKET \notin DOMAIN last_profit
           /\ TICKET \notin last_monitor_log

\* C18: an invocation in which the symbol metadata lookup fails calls
\* modify_sl not at all and raises nothing.
C18_NoSymbolInfoIsQuiet ==
    branch = "no_symbol_info" => (calls = <<>> /\ error = "none")

\* C19: every stop an invocation passes to modify_sl differs from the stop
\* the snapshot reports.
C19_SentStopDiffers == \A s \in SentStops : s # pos.sl

\* The snapshot p seen from the other side of its entry price: the other
\* direction, current price and stop at the same distances; an unset stop
\* stays unset.
Mirror(p) ==
    [p EXCEPT !.is_buy = ~p.is_buy,
              !.price_current = 2 * p.price_open - p.price_current,
              !.sl = IF p.sl = 0 THEN 0 ELSE 2 * p.price_open - p.sl]

\* The instruction of the ratchet step of trail for the snapshot p.
RatchetInstruction(lp, p, inf, ratio, atr5, atr1, dt) ==
    LET new_sl == CalculateNextSl(lp, p, inf, ratio, atr5, atr1, dt)
    IN  IF ShouldMove(p, new_sl) THEN [kind |-> "SetStop", sl |-> new_sl]
        ELSE [kind |-> "NoOp", sl |-> 0]

\* The instruction ins for p, seen from the other side of p's entry price.
MirrorInstruction(p, ins) ==
    IF ins.kind = "NoOp" THEN ins
    ELSE [ins EXCEPT !.sl = 2 * p.price_open - ins.sl]

\* C20: whenever the ratchet step runs on a snapshot, the mirrored snapshot
\* would, for every estimator input, get the mirrored instruction: SetStop at
\* the mirrored price, or NoOp in both.
C20_ShortMirrorsLong ==
    [][(Invoked' /\ TICKET \in first_sl_set)
         => \A ratio \in VolumeRatios, atr \in AtrValues, dt \in Elapsed :
                RatchetInstruction(last_profit, Mirror(positions[TICKET]), info,
                                   ratio, atr, atr, dt)
                  = MirrorInstruction(positions[TICKET],
                        RatchetInstruction(last_profit, positions[TICKET], info,
                                           ratio, atr, atr, dt))]_vars

\* C21: in a poll cycle, trail is called at most once for a ticket, a ticket
\* first found in that cycle included.
C21_OncePerCycle == \A t \in DOMAIN run.trailed : run.trailed[t] <= 1

\* C22: once the loop body has fetched a tracked ticket that the broker does
\* not report any more, the ticket is in none of active_tickets,
\* auto_positions and chained_positions, with --all and without.
C22_ClosedTicketForgotten ==
    (run.ticket # NoTicket /\ run.ticket \notin OpenTickets)
        => /\ run.ticket \notin active_tickets
           /\ run.ticket \notin DOMAIN auto_positions
           /\ run.ticket \notin chained_positions

\* C23: the poll loop is never ended by the RuntimeError of a positions
\* fetch that fails in the loop.
C23_ProviderFailureKeepsLoop == ~(run.pc = "crashed" /\ error = "RuntimeError")

\* C24: started with --ticket T and without --all, the runner tracks no
\* ticket but T and calls trail with no snapshot but one of T.
C24_OnlySelectedTicket ==
    ~args.all => /\ active_tickets \subseteq {args.ticket}
                 /\ Invoked => pos.ticket = args.ticket

\* C25: with --ignore-tp-positions, trail is never called with a snapshot
\* that carries a take-profit, and no modify request is sent for a position
\* that carries one.
C25_TakeProfitPositionsUntouched ==
    args.ignore_tp_positions
        => /\ Invoked => pos.tp = 0
           /\ \A r \in run.requests : r.tp = 0

\* The minimum-distance clamp of calculate_initial_sl binds: the stop that
\* locks the target is nearer to the current price than MinDist.
ClampBinds(p, inf) ==
    LET contract == Contract(p)
        need == PROFIT_TO_ACTIVATE_TRAILING + Commission(p) - p.swap
    IN  IF p.is_buy
        THEN QLess(QInt(p.price_current - MinDist(inf)),
                   <<p.price_open * contract + need, contract>>)
        ELSE QLess(<<p.price_open * contract - need, contract>>,
                   QInt(p.price_current + MinDist(inf)))

\* The initial-placement branch ran in the trail call just made.
InitialBranches == {"initial", "skipped_negative_lock", "skipped_insufficient_buffer"}

\* C26: whenever trail has computed the initial stop of a snapshot for which
\* the minimum-distance clamp does not bind, the profit locked at that stop
\* differs from PROFIT_TO_ACTIVATE_TRAILING by the value of one point of the
\* position (point x volume x contract size) at most.
C26_InitialStopRoundTrip ==
    (branch \in InitialBranches /\ ~ClampBinds(pos, info))
        => LET locked == ProfitIfSlHit(pos, CalculateInitialSl(pos, info))
           IN  /\ locked - PROFIT_TO_ACTIVATE_TRAILING <= POINT * Contract(pos)
               /\ PROFIT_TO_ACTIVATE_TRAILING - locked <= POINT * Contract(pos)

\* The round trip is not exact: with swap -$1.15 the target is 59.25 points
\* from the entry, the stop is rounded to 59 points and locks $9.95.
C26_Witness ==
    /\ branch \in InitialBranches
    /\ ~ClampBinds(pos, info)
    /\ ProfitIfSlHit(pos, CalculateInitialSl(pos, info)) = PROFIT_TO_ACTIVATE_TRAILING - 10

\* The stop prices the engine evaluates or meets for the snapshot p: its
\* stop, its current price, its initial stop, and the prices MinDist on
\* either side of the current price.
StopPrices(p, inf) ==
    {p.sl, p.price_current, CalculateInitialSl(p, inf),
     p.price_current - MinDist(inf), p.price_current + MinDist(inf)} \ {0}

\* C27: for every open position and every nonzero stop price,
\* profit_if_sl_hit is the price difference from the entry to the stop in the
\* position's direction, times volume, times contract size, plus the swap
\* with its sign, minus COMMISSION_PER_LOT times volume.
C27_ProfitIfSlHitFormula ==
    \A t \in OpenTickets :
        LET p == positions[t]
        IN  \A s \in StopPrices(p, info) :
                ProfitIfSlHit(p, s)
                  = ((IF p.is_buy THEN s - p.price_open ELSE p.price_open - s)
                        * p.volume * TRADE_CONTRACT_SIZE) \div LOT_SCALE
                    + p.swap
                    - (COMMISSION_PER_LOT * p.volume) \div LOT_SCALE

\* trail has placed an initial stop for a position with a negative swap: the
\* amount it computed for that stop is below the gross profit less
\* commission, by the swap.
C27_Witness ==
    /\ branch = "initial"
    /\ calls # <<>>
    /\ pos.swap < 0
    /\ ProfitIfSlHit(pos, calls[1].sl)
         = (IF pos.is_buy THEN calls[1].sl - pos.price_open
            ELSE pos.price_open - calls[1].sl) * Contract(pos)
           - Commission(pos) + pos.swap

\* The last step was a call of _get_atr.
AtrCalled == branch \in {"atr_m5", "atr_m1"}

PrecedingVolume ==
    SumTickVolume(rates.bars, Len(rates.bars) - VOLUME_LOOKBACK, Len(rates.bars) - 1)

\* C29: _get_volume_ratio never returns zero or less; with no data, fewer
\* than M + 1 bars or a mean that is not positive it returns 1.0.
C29_VolumeRatioPositive ==
    branch = "volume_ratio"
        => /\ calc.vol_ratio[1] > 0
           /\ (\/ rates.none
               \/ Len(rates.bars) < VOLUME_LOOKBACK + 1
               \/ PrecedingVolume <= 0) => calc.vol_ratio = <<1, 1>>

LargestDistance(i) ==
    LET b == rates.bars[i]
        c == rates.bars[i - 1].close
        d == {b.high - b.low,
              IF b.high >= c THEN b.high - c ELSE c - b.high,
              IF b.low >= c THEN b.low - c ELSE c - b.low}
    IN  CHOOSE m \in d : \A x \in d : m >= x

\* The distances of the last k bars of the history, added up.
RECURSIVE LastDistances(_)
LastDistances(k) ==
    IF k = 0 THEN 0
    ELSE LargestDistance(Len(rates.bars) - k + 1) + LastDistances(k - 1)

PromisedStop(p, inf, mult, atr) ==
    LET dist == QNorm(<<mult * atr[1], MULT_SCALE * atr[2]>>)
        away == IF p.is_buy
                THEN <<p.price_current * dist[2] - dist[1], dist[2]>>
                ELSE <<p.price_current * dist[2] + dist[1], dist[2]>>
    IN  IF p.is_buy
        THEN QMax(QInt(p.sl), QMin(away, QInt(p.price_current - MinDist(inf))))
        ELSE QMin(QInt(p.sl), QMax(away, QInt(p.price_current + MinDist(inf))))

\* C32: the stop that trail_position of the legacy script sends for a
\* profitable position that already has a stop is the volume-adjusted ATR
\* stop max(stop, min(price - mult x ATR, price - min_dist)), mirrored for a
\* short, with mult the clipped multiplier of the volume ratio of the moment.
C32_LegacyVolumeAdjustedStop ==
    (/\ branch \in LegacyBranches
     /\ pos.sl > 0
     /\ calls # <<>>
     /\ calls[1].sl # 0)
        => calls[1].sl = Round(PromisedStop(pos, info, calc.mult, calc.atr))

\* calculate_next_sl has just run.
Ratcheted == {"trailed", "held"}

\* A multiplier (a rational) lies within [MIN_MULTIPLIER, MAX_MULTIPLIER].
WithinMultiplierBounds(m) ==
    /\ ~QLess(m, <<MIN_MULTIPLIER, MULT_SCALE>>)
    /\ ~QLess(<<MAX_MULTIPLIER, MULT_SCALE>>, m)

\* C33: the multiplier that calculate_next_sl applies to ATR, after the
\* velocity adjustment, lies within [MIN_MULTIPLIER, MAX_MULTIPLIER]: at
\* every step in which calculate_next_sl runs, for whatever time has passed
\* since it last ran for the ticket, given the profit it recorded then.
C33_AppliedMultiplierInBounds ==
    [][branch' \in Ratcheted
          => \A dt \in Elapsed :
                 WithinMultiplierBounds(
                     QMul(QNorm(<<calc'.mult, MULT_SCALE>>),
                          VelocityFactor(last_profit, pos', dt)))]_vars

\* The invocation just made sent a request that takes the stop off.
RemoveStopSent == \E i \in 1..Len(calls) : calls[i].sl = 0

\* C34: in the lifetime of one engine the foreign-stop cleanup is taken at
\* most once for a ticket: the set of cleaned tickets never shrinks, and an
\* invocation that sends a removal is for a ticket that was not in the set
\* before and is in it afterwards, whether or not the removal succeeded.
C34_CleanupAtMostOnce ==
    [][/\ cleaned_preexisting_sl \subseteq cleaned_preexisting_sl'
       /\ (Invoked' /\ RemoveStopSent')
             => /\ pos'.ticket \notin cleaned_preexisting_sl
                /\ pos'.ticket \in cleaned_preexisting_sl']_vars

\* A later invocation for a cleaned ticket that is not owned and has a stop
\* again (the removal failed, or somebody put a stop back): nothing is sent.
C34_Witness ==
    /\ Invoked
    /\ pos.ticket \in cleaned_preexisting_sl
    /\ pos.ticket \notin first_sl_set
    /\ pos.sl # 0
    /\ branch # "cleanup"
    /\ calls = <<>>

\* The price, profit and swap of the snapshot p meet the activation threshold
\* and its initial stop passes the profit-lock and the entry-side check.
Eligible(p) ==
    /\ p.profit >= RequiredProfit(p, info)
    /\ ProfitIfSlHit(p, CalculateInitialSl(p, info))
           >= PROFIT_TO_ACTIVATE_TRAILING - TOLERANCE
    /\ IF p.is_buy THEN CalculateInitialSl(p, info) > p.price_open
       ELSE CalculateInitialSl(p, info) < p.price_open

\* The engine has not met the ticket.
Fresh(t) ==
    /\ t \notin first_sl_set
    /\ t \notin cleaned_preexisting_sl
    /\ t \notin DOMAIN last_profit

\* Every request of the invocation just made was applied.
AllApplied == \A i \in 1..Len(calls) : calls[i].ok

\* The ticket is owned and the stop at the broker is the initial stop of p.
Placed(t, p) ==
    /\ t \in first_sl_set
    /\ positions[t].sl = CalculateInitialSl(p, info)

\* C35: with every request applied, an eligible position that the engine has
\* not met is owned, with its initial stop placed, after one invocation when
\* it has no stop; when it has one, the first invocation removes it and
\* leaves the position eligible, and the invocation that follows a removal,
\* on the same price, profit and swap, places the initial stop.
C35_OwnedWithinTwoInvocations ==
    [][(Invoked' /\ AllApplied' /\ Eligible(positions[TICKET]))
         => LET p == positions[TICKET]
            IN  /\ (Fresh(TICKET) /\ p.sl = 0) => Placed(TICKET, p)'
                /\ (Fresh(TICKET) /\ p.sl # 0)
                      => /\ branch' = "cleanup"
                         /\ TICKET \notin first_sl_set'
                         /\ positions'[TICKET] = [p EXCEPT !.sl = 0]
                /\ (/\ branch = "cleanup"
                    /\ AllApplied
                    /\ p.price_current = pos.price_current
                    /\ p.profit = pos.profit
                    /\ p.swap = pos.swap) => Placed(TICKET, p)']_vars

\* The second invocation: the initial stop placed on a ticket whose foreign
\* stop the engine has removed.
C35_Witness ==
    /\ branch = "initial"
    /\ AllApplied
    /\ TICKET \in cleaned_preexisting_sl
    /\ pos.sl = 0
    /\ Placed(TICKET, pos)

\* The engine has just taken the stop off an owned position whose profit was
\* below the threshold.
StopRemovedFromOwned ==
    /\ branch = "basic_removed"
    /\ AllApplied
    /\ TICKET \in first_sl_set

\* The owned position is without a stop and its profit is at the threshold.
Recovered ==
    /\ TICKET \in first_sl_set
    /\ positions[TICKET].sl = 0
    /\ positions[TICKET].profit >= ProfitThreshold(positions[TICKET])

\* C36: once BasicTrailingEngine.trail has removed the stop of an owned
\* position for low profit, then whenever the profit is at or above the
\* threshold again, a stop is on the position again later (or the profit has
\* fallen below the threshold once more), the engine being invoked for ever.
C36_StopPlacedAgain ==
    [](StopRemovedFromOwned
         => [](Recovered
                 => <>(\/ positions[TICKET].sl # 0
                       \/ positions[TICKET].profit < ProfitThreshold(positions[TICKET]))))

\* C37: without --all, and with every positions fetch answered, no exception
\* ends the poll loop: the runner trails the positions selected at the start
\* cycle after cycle and leaves the loop at NO_ACTIVE_EXITING.
C37_SingleRunEndsNormally ==
    (~args.all /\ error # "RuntimeError") => run.pc # "crashed"

\* The calls of the terminal of the robust_positions_get just made that
\* are calls of fn.
CallsOf(fn) == {i \in 1..Len(provider.calls) : provider.calls[i].fn = fn}

\* C38: one call of robust_positions_get makes at most two fetches and at
\* most one initialize; a first fetch that is not None is returned and
\* nothing else is called; a first fetch that is None is followed by exactly
\* one initialize and, when that succeeds, by exactly one more fetch;
\* RuntimeError is raised exactly when initialize fails or the second fetch
\* is None; an empty result is returned as it is, without an error.
C38_RetryOnceAfterReinitialize ==
    branch = "robust_positions_get"
        => LET cs == provider.calls
               n == Len(cs)
           IN  /\ Cardinality(CallsOf("positions_get")) <= 2
               /\ Cardinality(CallsOf("initialize")) <= 1
               /\ n >= 1
               /\ cs[1].fn = "positions_get"
               /\ cs[1].ok => /\ n = 1
                              /\ provider.returned = cs[1].tickets
                              /\ error = "none"
               /\ ~cs[1].ok => /\ n >= 2
                               /\ cs[2].fn = "initialize"
                               /\ cs[2].ok => /\ n = 3
                                              /\ cs[3].fn = "positions_get"
                               /\ ~cs[2].ok => n = 2
               /\ error = "RuntimeError"
                     <=> (\/ \E i \in CallsOf("initialize") : ~cs[i].ok
                          \/ n = 3 /\ ~cs[3].ok)
               /\ error # "RuntimeError" => provider.returned = cs[n].tickets

\* A first fetch that is None, an initialize that succeeds and a second
\* fetch that finds no position: the empty result is returned after the
\* three calls, and no error is raised.
C38_Witness ==
    /\ branch = "robust_positions_get"
    /\ Len(provider.calls) = 3
    /\ ~provider.calls[1].ok
    /\ provider.calls[2].ok
    /\ provider.calls[3].ok
    /\ provider.calls[3].tickets = {}
    /\ provider.returned = {}
    /\ error = "none"

====
